---- MODULE Spec2Model ----
(***************************************************************************)
(* Piece-addressed progressive file transfer (hasty-file-sharing).         *)
(*                                                                         *)
(* Spec       : the WebSocket server (backend/websocket.js and its later   *)
(*              revision with cached handles and batched metadata writes), *)
(*              the HTTP chunk and delete routes, and the browser download *)
(*              manager.                                                   *)
(* StreamSpec : the live-streaming HTTP server (POST /upload/:fileId).     *)
(*                                                                         *)
(* Bytes are modelled in cells of Unit bytes; a cell holds one value of    *)
(* Byte, or 0 where a sparse write left a hole.                            *)
(***************************************************************************)
EXTENDS Integers, Sequences, FiniteSets, TLC

\* ------------------------------------------------------------------ scale
Unit == 32 * 1024
KiB64 == (64 * 1024) \div Unit
MiB == (1024 * 1024) \div Unit
GiB == 1024 * MiB

\* ----------------------------------------------------------------- bounds
MaxChunks == 2
MaxInFlight == 2
MaxHttpChunks == 3
MaxRetries == 1
MaxStreamData == 2
MaxUploads == 2
MaxQuotaFiles == 3
MaxPlanCalls == 2
MaxHandles == 3
MaxPagePieces == 2

Sizes == {3}
Byte == {1, 2}
Payloads == {<<2>>, <<1, 1>>}
FileBytes == <<1, 1, 2>>
Uploads == {<<1, 1>>, FileBytes}
ChunkIndices == 0..2
PieceIndices == 0..1
AskedIndices == {1}
FileIds == {"f"}
Producer == "p"
Consumers == {"c1", "c2"}
Listener == "c1"
Conns == {Producer} \cup Consumers
Builds == {"plain", "batched"}
StreamFileIds == {"a", "b"}
UploadReqs == 1..MaxUploads
DownloadReqs == {"d1", "d2"}
QuotaIds == 1..MaxQuotaFiles
QuotaSizes == {1, 3}
\* the download whose consumer may stop reading, and the one whose
\* response may throw on a write
StallReqs == {"d1"}
FailReqs == {"d2"}
FanoutFile == "a"

\* ---------------------------------------------------------------- helpers
Max(a, b) == IF a > b THEN a ELSE b
Min(a, b) == IF a < b THEN a ELSE b

\* a bucket table whose thresholds belong to the smaller piece size
getPieceSizeInclusive(fileSize) ==
  IF fileSize <= 128 * MiB THEN KiB64
  ELSE IF fileSize <= GiB THEN (256 * 1024) \div Unit
  ELSE IF fileSize <= 4 * GiB THEN (512 * 1024) \div Unit
  ELSE IF fileSize <= 16 * GiB THEN MiB
  ELSE IF fileSize <= 64 * GiB THEN 2 * MiB
  ELSE IF fileSize <= 256 * GiB THEN 4 * MiB
  ELSE 8 * MiB

getPieceSize(fileSize) ==
  IF fileSize < 128 * MiB THEN KiB64
  ELSE IF fileSize < GiB THEN (256 * 1024) \div Unit
  ELSE IF fileSize < 4 * GiB THEN (512 * 1024) \div Unit
  ELSE IF fileSize < 16 * GiB THEN MiB
  ELSE IF fileSize < 64 * GiB THEN 2 * MiB
  ELSE IF fileSize < 256 * GiB THEN 4 * MiB
  ELSE 8 * MiB

\* Math.ceil(size / pieceSize)
CeilDiv(a, b) == (a + b - 1) \div b

\* btoa over the bytes (uint8ArrayToBase64, buffer.toString('base64')): the
\* sextets of every three bytes, 64 standing for the padding character
RECURSIVE toBase64(_)
toBase64(bytes) ==
  IF Len(bytes) = 0 THEN <<>>
  ELSE LET a == bytes[1]
           b == IF Len(bytes) >= 2 THEN bytes[2] ELSE 0
           c == IF Len(bytes) >= 3 THEN bytes[3] ELSE 0
       IN <<a \div 4, (a % 4) * 16 + b \div 16,
            IF Len(bytes) >= 2 THEN (b % 16) * 4 + c \div 64 ELSE 64,
            IF Len(bytes) >= 3 THEN c % 64 ELSE 64>>
          \o (IF Len(bytes) > 3 THEN toBase64(SubSeq(bytes, 4, Len(bytes)))
              ELSE <<>>)

\* Buffer.from(data, 'base64') and atob with charCodeAt: the bytes of every
\* four sextets
RECURSIVE fromBase64(_)
fromBase64(str) ==
  IF Len(str) < 4 THEN <<>>
  ELSE LET b1 == str[1] * 4 + str[2] \div 16
           b2 == (str[2] % 16) * 16 + str[3] \div 4
           b3 == (str[3] % 4) * 64 + str[4]
       IN (IF str[3] = 64 THEN <<b1>>
           ELSE IF str[4] = 64 THEN <<b1, b2>>
           ELSE <<b1, b2, b3>>)
          \o fromBase64(SubSeq(str, 5, Len(str)))

\* sha256 is modelled as an injective digest; the empty sequence is the
\* empty string stored for a piece that has no hash yet
EmptyHash == <<>>
hashPiece(data) == <<Len(data)>> \o data
Hashes == {hashPiece(p) : p \in Payloads}

\* FileHandle.write(buffer, 0, length, position): a positional write; cells
\* between the old end of file and the position read back as zero
WriteAt(bytes, offset, data) ==
  [k \in 1..Max(Len(bytes), offset + Len(data)) |->
     IF k > offset /\ k <= offset + Len(data) THEN data[k - offset]
     ELSE IF k <= Len(bytes) THEN bytes[k] ELSE 0]

\* FileHandle.read(buffer, 0, size, offset): the bytes actually read
ReadAt(bytes, offset, size) ==
  [k \in 1..Max(0, Min(size, Len(bytes) - offset)) |-> bytes[offset + k]]

\* piece rows that all have the length pieceSize
PieceTableUnclipped(size, pieceSize) ==
  [i \in 0..(CeilDiv(size, pieceSize) - 1) |->
     [hash |-> EmptyHash,
      size |-> pieceSize,
      offset |-> i * pieceSize,
      is_complete |-> 0]]

\* the piece rows handleUploadInit creates
PieceTable(size, pieceSize) ==
  [i \in 0..(CeilDiv(size, pieceSize) - 1) |->
     [hash |-> EmptyHash,
      size |-> Min(pieceSize, size - i * pieceSize),
      offset |-> i * pieceSize,
      is_complete |-> 0]]

NoFile == [size |-> 0, piece_size |-> 0, total_pieces |-> 0]
NoPieces == [i \in {} |-> 0]
NoUpload == [uploadedChunks |-> {}, totalPieces |-> 0, pieceSize |-> 0,
             size |-> 0, ws |-> "none", updatedInDB |-> {},
             chunkHashes |-> NoPieces, handleOpen |-> FALSE]
NoCache == [open |-> FALSE, closed |-> FALSE, pieces |-> NoPieces]
NoPiece == [hash |-> EmptyHash, size |-> 0, offset |-> 0, is_complete |-> 0]
NoReply == [type |-> "none", data |-> <<>>, after |-> FALSE, peers |-> {}]
\* writable: the download writes to a .part file through one writable
\* stream (position: the stream's cursor, partFile: the bytes written,
\* seeking: the chunks whose handler awaits its seek); otherwise the chunks
\* go to the IndexedDB store (chunks: pieceIndex -> data). assembled: the
\* bytes of the final file
NoDownload == [active |-> FALSE, receivedChunks |-> {}, totalPieces |-> 0,
               completed |-> 0, writable |-> FALSE, position |-> 0,
               partFile |-> <<>>, seeking |-> <<>>, chunks |-> <<>>,
               assembled |-> <<>>]
NoUploader == [started |-> FALSE, currentChunkIndex |-> 0, pieceSize |-> 0,
               totalPieces |-> 0]

\* ------------------------------------------------------------------ state
VARIABLES
  build,            \* which revision of the WebSocket server runs
  fileRow,          \* files table: the row of the file, or NoFile
  pieces,           \* pieces table: piece_index -> row
  blob,             \* the bytes of the uploaded file (its inode)
  linked,           \* the file's path exists in UPLOADS_DIR
  activeUploads,    \* fileIds that have an entry in the activeUploads map
  upload,           \* the session object of the upload
  activeDownloads,  \* activeDownloads.get(fileId): the subscribed sockets
  downloadCache,    \* downloadCache.get(fileId)
  tasks,            \* handler invocations suspended at an await
  nextId,           \* number of chunk messages received so far
  httpChunks,       \* number of POST /chunk requests handled so far
  open,             \* sockets whose readyState is OPEN
  joined,           \* consumers that have sent DOWNLOAD_INIT
  joinedActive,     \* consumers subscribed while the upload was active
  clients,          \* consumers that run the browser download manager
  uploader,         \* the browser uploader (uploadChunks)
  inbox,            \* client -> messages sent to it, not yet handled
  requests,         \* client -> DOWNLOAD_REQUEST indices not yet handled
  download,         \* client -> its entry in the client's activeDownloads
  initPending,      \* client -> initHandler invocations at an await
  clientTasks,      \* client -> chunkHandler invocations at an await
  clientWrites,     \* client -> index -> writes to the .part file
  retries,          \* client -> re-requests sent after a hash mismatch
  replies,          \* consumer -> index -> the answer to its piece request
  sent,             \* the messages the last step sent
  completeSent,     \* number of UPLOAD_COMPLETE messages sent
  streamUploads,    \* live-streaming server: the activeUploads map
  streamReqs,       \* live-streaming server: upload request -> its session
  streamFiles,      \* live-streaming server: the files of the uploads directory
  streamDownloads,  \* live-streaming server: download request -> its state
  streamLast,       \* live-streaming server: the last response sent
  quotaFiles,       \* storage accounting: fileId -> its row and its file
  quotaTasks,       \* storage accounting: uploads suspended at an await
  quotaSent,        \* storage accounting: the reply the last step sent
  planSize,         \* piece plan: the declared size of the file
  clientPlan,       \* piece plan: the plan the browser computed
  planCalls,        \* piece plan: number of times the browser computed it
  wholeDownload,    \* GET /api/download/:fileId: the request and its response
  cacheHandles,     \* the file handles opened for downloadCache, and the stored one
  pageUploads,      \* browser page: upload -> the state of uploadFileViaWebSocket
  pageHandlers,     \* browser page: wsClient.messageHandlers, in registration order
  pageInbox,        \* browser page: messages of the server not yet dispatched
  pageAccepted      \* browser page: upload -> the indices the server accepted

serverVars == <<fileRow, pieces, blob, linked, activeUploads, upload,
                activeDownloads, downloadCache, tasks>>
clientVars == <<download, initPending, clientTasks, clientWrites, retries>>
wsVars == <<build, serverVars, nextId, httpChunks, open, joined, joinedActive,
            clients, uploader, inbox, requests, clientVars, replies, sent,
            completeSent>>
streamVars ==
  <<streamUploads, streamReqs, streamFiles, streamDownloads, streamLast>>
quotaVars == <<quotaFiles, quotaTasks, quotaSent>>
planVars == <<planSize, clientPlan, planCalls>>
pageVars == <<pageUploads, pageHandlers, pageInbox, pageAccepted>>
vars == <<wsVars, streamVars, quotaVars, planVars, wholeDownload, cacheHandles,
         pageVars>>

Indices == DOMAIN pieces
CompleteIndices == {i \in Indices : pieces[i].is_complete = 1}

TheFile == CHOOSE f \in FileIds : TRUE
BatchEvery == 10

IdleTask == [kind |-> "none", id |-> 0, ws |-> "none", chunkIndex |-> 0,
             data |-> <<>>, hash |-> EmptyHash, pc |-> "done",
             toUpdate |-> {}, dup |-> FALSE, piece |-> NoPiece]
UploadTasks == {t \in tasks : t.kind = "upload"}
NotifyTasks == {t \in tasks : t.kind = "notify"}

ZeroCounts == [c \in Consumers |-> [i \in ChunkIndices |-> 0]]

\* a message on the wire
Msg(to, type, index, data, hash, chunks, totalPieces) ==
  [to |-> to, type |-> type, index |-> index, data |-> data, hash |-> hash,
   chunks |-> chunks, totalPieces |-> totalPieces]
sendError(ws, errorType, index) ==
  Msg(ws, errorType, index, <<>>, EmptyHash, {}, 0)
Note(ws, type, index) == Msg(ws, type, index, <<>>, EmptyHash, {}, 0)

\* ws.send to the consumers running the download manager queues the message
Deliver(box, msgs) ==
  [c \in DOMAIN box |->
     IF c \in clients /\ \E m \in msgs : m.to = c
       THEN Append(box[c], CHOOSE m \in msgs : m.to = c)
       ELSE box[c]]

\* ------------------------------------------------------------------- Init
\* a fileId without a row and without a file
NoStored == [row |-> FALSE, size |-> 0, pieceRows |-> 0, onDisk |-> FALSE,
             bytes |-> 0]
NoResponse == [to |-> "none", type |-> "none", fileId |-> 0]

NoPlan == [pieceSize |-> 0, totalPieces |-> 0, table |-> NoPieces]
\* the whole-file download: the row it read (totalPieces), the length of
\* its availablePieces array (available), the pieces it has written to the
\* response (streamed, in the order written) and the body of the response
NoWhole == [state |-> "new", totalPieces |-> 0, available |-> 0,
            streamed |-> <<>>, body |-> <<>>]
\* the uploads a browser page runs over its one WebSocket connection
PageUploads == {"u1", "u2"}
NoPageUpload == [state |-> "idle", fileId |-> "none", currentChunkIndex |-> 0,
                 uploadedChunks |-> 0]

PageIdle ==
  /\ pageUploads = [u \in PageUploads |-> NoPageUpload]
  /\ pageHandlers = <<>>
  /\ pageInbox = <<>>
  /\ pageAccepted = [u \in PageUploads |-> {}]

\* no handle was opened for the download cache, and the cache has no entry
NoHandles == [fds |-> <<>>, stored |-> 0]

PlanIdle ==
  /\ planSize = 0
  /\ clientPlan = NoPlan
  /\ planCalls = 0
  /\ wholeDownload = NoWhole
  /\ cacheHandles = NoHandles
  /\ PageIdle

QuotaIdle ==
  /\ quotaFiles = [f \in QuotaIds |-> NoStored]
  /\ quotaTasks = {}
  /\ quotaSent = NoResponse

StreamIdle ==
  /\ streamUploads = NoPieces
  /\ streamReqs = NoPieces
  /\ streamFiles = NoPieces
  /\ streamDownloads = NoPieces
  /\ streamLast = <<>>

WsIdle ==
  /\ fileRow = NoFile
  /\ pieces = NoPieces
  /\ blob = <<>>
  /\ linked = FALSE
  /\ activeUploads = {}
  /\ upload = NoUpload
  /\ activeDownloads = {}
  /\ downloadCache = NoCache
  /\ tasks = {}
  /\ nextId = 0
  /\ httpChunks = 0
  /\ open = Conns
  /\ joined = {}
  /\ joinedActive = {}
  /\ uploader = NoUploader
  /\ inbox = [c \in Consumers |-> <<>>]
  /\ requests = [c \in Consumers |-> {}]
  /\ download = [c \in Consumers |-> NoDownload]
  /\ initPending = [c \in Consumers |-> <<>>]
  /\ clientTasks = [c \in Consumers |-> <<>>]
  /\ clientWrites = ZeroCounts
  /\ retries = [c \in Consumers |-> 0]
  /\ replies = [c \in Consumers |-> [i \in ChunkIndices |-> NoReply]]
  /\ sent = {}
  /\ completeSent = 0

\* the server with sockets that send any message
Init ==
  /\ build \in Builds
  /\ clients = {}
  /\ WsIdle
  /\ StreamIdle
  /\ QuotaIdle
  /\ PlanIdle

\* the server with the browser uploader and the browser download manager
ClientInit ==
  /\ build \in Builds
  /\ clients = {Listener}
  /\ WsIdle
  /\ StreamIdle
  /\ QuotaIdle
  /\ PlanIdle

\* the HTTP chunk routes
HttpInit ==
  /\ build = "plain"
  /\ clients = {}
  /\ WsIdle
  /\ StreamIdle
  /\ QuotaIdle
  /\ PlanIdle

\* ----------------------------------------------------- server: upload path
\* handleUploadInit: the file row, the piece rows, the empty file and the
\* session; fileId is a fresh uuid, so there is one init per fileId
handleUploadInit(ws, size) ==
  /\ ws \in open
  /\ fileRow = NoFile
  /\ upload = NoUpload
  /\ size > 0
  /\ LET pieceSize == getPieceSize(size)
         totalPieces == CeilDiv(size, pieceSize)
     IN /\ fileRow' = [size |-> size, piece_size |-> pieceSize,
                       total_pieces |-> totalPieces]
        /\ pieces' = PieceTable(size, pieceSize)
        /\ blob' = <<>>
        /\ linked' = TRUE
        /\ activeUploads' = activeUploads \cup {TheFile}
        /\ upload' = [uploadedChunks |-> {}, totalPieces |-> totalPieces,
                      pieceSize |-> pieceSize, size |-> size, ws |-> ws,
                      updatedInDB |-> {}, chunkHashes |-> NoPieces,
                      handleOpen |-> (build = "batched")]
        /\ sent' = {Msg(ws, "UPLOAD_INIT_SUCCESS", 0, <<>>, EmptyHash, {},
                        totalPieces)}
        /\ uploader' = IF clients # {}
                         THEN [started |-> TRUE, currentChunkIndex |-> 0,
                               pieceSize |-> pieceSize,
                               totalPieces |-> totalPieces]
                         ELSE uploader
  /\ UNCHANGED <<build, replies, activeDownloads, downloadCache, tasks, nextId,
                 httpChunks, open, joined, joinedActive, clients, inbox,
                 requests, clientVars, completeSent, streamVars, quotaVars, planVars, wholeDownload, cacheHandles, pageVars>>

\* the same handler treating a hash mismatch as fatal for the session
UploadChunkFatal(ws, chunkIndex, data, hash) ==
  /\ ws \in open
  /\ upload # NoUpload
  /\ nextId < MaxChunks
  /\ Cardinality(tasks) < MaxInFlight
  /\ nextId' = nextId + 1
  /\ IF TheFile \notin activeUploads
       THEN /\ sent' = {sendError(ws, "UPLOAD_NOT_FOUND", chunkIndex)}
            /\ tasks' = tasks
            /\ activeUploads' = activeUploads
     ELSE IF hash # EmptyHash /\ hashPiece(data) # hash
       THEN /\ sent' = {sendError(ws, "HASH_MISMATCH", chunkIndex)}
            /\ tasks' = tasks
            /\ activeUploads' = activeUploads \ {TheFile}
     ELSE /\ sent' = {}
          /\ activeUploads' = activeUploads
          /\ tasks' = tasks \cup
               {[kind |-> "upload", id |-> nextId + 1, ws |-> ws,
                 chunkIndex |-> chunkIndex, data |-> data, hash |-> hash,
                 pc |-> "write", toUpdate |-> {},
                 dup |-> chunkIndex \in CompleteIndices,
                 piece |-> NoPiece]}
  /\ UNCHANGED <<build, replies, fileRow, pieces, blob, linked, upload,
                 activeDownloads, downloadCache, httpChunks, open, joined,
                 joinedActive, clients, inbox, requests, clientVars,
                 completeSent, streamVars, quotaVars, planVars, wholeDownload, cacheHandles, pageVars>>

\* UPLOAD_CHUNK, the synchronous part of handleUploadChunk up to its first
\* await: session lookup and hash check. The task remembers in dup whether
\* the index was complete when the chunk arrived
UploadChunk(ws, chunkIndex, data, hash) ==
  /\ ws \in open
  /\ upload # NoUpload
  /\ nextId < MaxChunks
  /\ Cardinality(tasks) < MaxInFlight
  /\ nextId' = nextId + 1
  /\ IF TheFile \notin activeUploads
       THEN /\ sent' = {sendError(ws, "UPLOAD_NOT_FOUND", chunkIndex)}
            /\ tasks' = tasks
     ELSE IF hash # EmptyHash /\ hashPiece(data) # hash
       THEN /\ sent' = {sendError(ws, "HASH_MISMATCH", chunkIndex)}
            /\ tasks' = tasks
     ELSE /\ sent' = {}
          /\ tasks' = tasks \cup
               {[kind |-> "upload", id |-> nextId + 1, ws |-> ws,
                 chunkIndex |-> chunkIndex, data |-> data, hash |-> hash,
                 pc |-> "write", toUpdate |-> {},
                 dup |-> chunkIndex \in CompleteIndices,
                 piece |-> NoPiece]}
  /\ UNCHANGED <<build, replies, fileRow, pieces, blob, linked, activeUploads, upload,
                 activeDownloads, downloadCache, httpChunks, open, joined,
                 joinedActive, clients, inbox, requests, clientVars,
                 completeSent, streamVars, quotaVars, planVars, wholeDownload, cacheHandles, pageVars>>

\* db.updatePieceHash + db.updatePieceComplete for a set of <<index, hash>>:
\* an UPDATE changes only rows that exist
UpdatePieces(rows, updates) ==
  [i \in DOMAIN rows |->
     IF \E u \in updates : u[1] = i
       THEN [rows[i] EXCEPT !.hash = (CHOOSE u \in updates : u[1] = i)[2],
                            !.is_complete = 1]
       ELSE rows[i]]

SetHash(h, i, x) ==
  [k \in DOMAIN h \cup {i} |-> IF k = i THEN x ELSE h[k]]

\* upload.chunkHashes?.get(idx) || actualHash
HashFor(up, idx, actualHash) ==
  IF idx \in DOMAIN up.chunkHashes /\ up.chunkHashes[idx] # EmptyHash
    THEN up.chunkHashes[idx] ELSE actualHash

\* A step of a suspended handleUploadChunk: the awaited operation takes
\* effect and the handler runs on to its next await. The result names the
\* new blob, piece rows and session object, and what the handler does next:
\*   "error"   the catch block sends UPLOAD_CHUNK_ERROR
\*   "suspend" the handler awaits again, as task
\*   "post"    the handler reaches `upload.uploadedChunks.add(chunkIndex)`
\*   "complete" the handler deletes the session and sends UPLOAD_COMPLETE
StepResult(b, p, u, o, t) ==
  [blob |-> b, pieces |-> p, upload |-> u, outcome |-> o, task |-> t]

\* websocket.js: open(filePath, 'r+'), write, sync, close
plainWrite(t) ==
  IF ~linked
    THEN StepResult(blob, pieces, upload, "error", t)
    ELSE StepResult(WriteAt(blob, t.chunkIndex * upload.pieceSize, t.data),
                    pieces, upload, "suspend", [t EXCEPT !.pc = "db"])

\* websocket.js: Promise.all([updatePieceHash, updatePieceComplete])
plainDb(t) ==
  StepResult(blob, UpdatePieces(pieces, {<<t.chunkIndex, hashPiece(t.data)>>}),
             upload, "post", t)

\* revision with the cached handle: upload.fileHandle.write, then the
\* decision which rows to write to the metadata store
batchedWrite(t) ==
  IF ~upload.handleOpen
    THEN StepResult(blob, pieces, upload, "error", t)
    ELSE
      LET b == WriteAt(blob, t.chunkIndex * upload.pieceSize, t.data)
          n == Cardinality(upload.uploadedChunks)
          shouldUpdateDB == n % BatchEvery = 0 \/ n = upload.totalPieces
          chunksToUpdate == upload.uploadedChunks \ upload.updatedInDB
      IN IF shouldUpdateDB
           THEN IF chunksToUpdate # {}
                  THEN StepResult(b, pieces,
                         [upload EXCEPT !.updatedInDB = @ \cup chunksToUpdate],
                         "suspend",
                         [t EXCEPT !.pc = "db",
                                   !.toUpdate =
                                     {<<i, HashFor(upload, i, hashPiece(t.data))>>
                                        : i \in chunksToUpdate}])
                  ELSE StepResult(b, pieces, upload, "post", t)
           ELSE IF t.chunkIndex \notin upload.updatedInDB
                  THEN StepResult(b, pieces, upload, "suspend",
                         [t EXCEPT !.pc = "db1",
                                   !.toUpdate =
                                     {<<t.chunkIndex, hashPiece(t.data)>>}])
                  ELSE StepResult(b, pieces, upload, "post", t)

batchedDb(t) ==
  StepResult(blob, UpdatePieces(pieces, t.toUpdate),
             IF t.pc = "db1"
               THEN [upload EXCEPT !.updatedInDB = @ \cup {t.chunkIndex}]
               ELSE upload,
             "post", t)

\* fileHandle.sync(), fileHandle.close(), then the rows still pending
batchedFinalize(t) ==
  IF ~upload.handleOpen
    THEN StepResult(blob, pieces, upload, "error", t)
    ELSE
      LET u == [upload EXCEPT !.handleOpen = FALSE]
          pendingChunks == upload.uploadedChunks \ upload.updatedInDB
      IN IF pendingChunks # {}
           THEN StepResult(blob, pieces, u, "suspend",
                  [t EXCEPT !.pc = "final_db",
                            !.toUpdate =
                              {<<i, HashFor(upload, i, hashPiece(t.data))>>
                                 : i \in pendingChunks}])
           ELSE StepResult(blob, pieces, u, "complete", t)

batchedFinalDb(t) ==
  StepResult(blob, UpdatePieces(pieces, t.toUpdate), upload, "complete", t)

UploadStepResult(t) ==
  IF build = "plain"
    THEN IF t.pc = "write" THEN plainWrite(t) ELSE plainDb(t)
    ELSE IF t.pc = "write" THEN batchedWrite(t)
    ELSE IF t.pc \in {"db", "db1"} THEN batchedDb(t)
    ELSE IF t.pc = "finalize" THEN batchedFinalize(t)
    ELSE batchedFinalDb(t)

\* handleUploadChunk from an await on: the rest of the handler runs without
\* yielding (track the chunk, UPLOAD_CHUNK_SUCCESS, the synchronous head of
\* notifyDownloaders, the completion check)
handleUploadChunk(t) ==
  /\ t \in UploadTasks
  /\ LET r == UploadStepResult(t)
         posted == r.outcome = "post"
         up == IF posted
                 THEN [r.upload EXCEPT
                         !.uploadedChunks = @ \cup {t.chunkIndex},
                         !.chunkHashes =
                           IF build = "batched"
                             THEN SetHash(@, t.chunkIndex, hashPiece(t.data))
                             ELSE @]
                 ELSE r.upload
         allIn == posted /\ Cardinality(up.uploadedChunks) = up.totalPieces
         completes == r.outcome = "complete" \/ (allIn /\ build = "plain")
         notifies == posted /\ activeDownloads # {}
     IN /\ blob' = r.blob
        /\ pieces' = r.pieces
        /\ upload' = up
        /\ tasks' = (tasks \ {t})
             \cup (IF r.outcome = "suspend" THEN {r.task} ELSE {})
             \cup (IF notifies
                     THEN {[IdleTask EXCEPT !.kind = "notify", !.id = t.id,
                                            !.chunkIndex = t.chunkIndex,
                                            !.pc = "notify", !.dup = t.dup]}
                     ELSE {})
             \cup (IF allIn /\ build = "batched"
                     THEN {[t EXCEPT !.pc = "finalize", !.toUpdate = {}]}
                     ELSE {})
        /\ activeUploads' = IF completes THEN activeUploads \ {TheFile}
                            ELSE activeUploads
        /\ completeSent' = IF completes THEN completeSent + 1
                           ELSE completeSent
        /\ sent' =
             (IF posted
                THEN {Msg(t.ws, "UPLOAD_CHUNK_SUCCESS", t.chunkIndex, t.data,
                          t.hash, {}, up.totalPieces)}
                ELSE {})
             \cup (IF completes THEN {Note(t.ws, "UPLOAD_COMPLETE", 0)}
                   ELSE {})
             \cup (IF r.outcome = "error"
                     THEN {sendError(t.ws, "UPLOAD_CHUNK_ERROR", t.chunkIndex)}
                     ELSE {})
  /\ UNCHANGED <<build, replies, fileRow, linked, activeDownloads, downloadCache,
                 nextId, httpChunks, open, joined, joinedActive, clients,
                 uploader, inbox, requests, clientVars, streamVars, quotaVars, planVars, wholeDownload, cacheHandles, pageVars>>

\* ---------------------------------------------------- server: download path
\* DOWNLOAD_INIT: snapshot of the complete pieces, subscription, reply
handleDownloadInit(ws) ==
  /\ ws \in Consumers \cap open
  /\ ws \notin joined
  /\ joined' = joined \cup {ws}
  /\ IF fileRow = NoFile
       THEN /\ sent' = {sendError(ws, "FILE_NOT_FOUND", 0)}
            /\ UNCHANGED <<activeDownloads, joinedActive>>
       ELSE /\ activeDownloads' = activeDownloads \cup {ws}
            /\ joinedActive' = IF TheFile \in activeUploads
                                 THEN joinedActive \cup {ws}
                                 ELSE joinedActive
            /\ sent' = {Msg(ws, "DOWNLOAD_INIT_SUCCESS", 0, <<>>, EmptyHash,
                            CompleteIndices, fileRow.total_pieces)}
  /\ inbox' = Deliver(inbox, {m \in sent' : m.type = "DOWNLOAD_INIT_SUCCESS"})
  /\ UNCHANGED <<build, replies, fileRow, pieces, blob, linked, activeUploads, upload,
                 downloadCache, tasks, nextId, httpChunks, open, clients,
                 uploader, requests, clientVars, completeSent, streamVars, quotaVars, planVars, wholeDownload, cacheHandles, pageVars>>

\* the reply to a piece request; websocket.js reads the rows and opens the
\* file on every request
plainRequest(ws, chunkIndex) ==
  IF fileRow = NoFile THEN sendError(ws, "FILE_NOT_FOUND", chunkIndex)
  ELSE IF chunkIndex \notin CompleteIndices
         THEN sendError(ws, "CHUNK_NOT_AVAILABLE", chunkIndex)
  ELSE IF ~linked THEN sendError(ws, "DOWNLOAD_REQUEST_ERROR", chunkIndex)
  ELSE LET piece == pieces[chunkIndex]
           bytes == ReadAt(blob, piece.offset, piece.size)
       IN IF Len(bytes) # piece.size
            THEN sendError(ws, "READ_ERROR", chunkIndex)
            ELSE Msg(ws, "DOWNLOAD_CHUNK", chunkIndex, bytes, piece.hash, {}, 0)

\* the later revision keeps the handle and the complete rows of the first
\* request in downloadCache; a read on a handle that cleanupConnection has
\* closed throws
CacheFor ==
  IF downloadCache.open THEN downloadCache
  ELSE IF fileRow = NoFile \/ ~linked THEN NoCache
  ELSE [open |-> TRUE, closed |-> FALSE,
        pieces |-> [i \in CompleteIndices |-> pieces[i]]]

batchedRequest(ws, chunkIndex) ==
  IF ~downloadCache.open /\ fileRow = NoFile
    THEN sendError(ws, "FILE_NOT_FOUND", chunkIndex)
  ELSE IF ~downloadCache.open /\ ~linked
    THEN sendError(ws, "DOWNLOAD_REQUEST_ERROR", chunkIndex)
  ELSE IF chunkIndex \notin DOMAIN CacheFor.pieces
    THEN sendError(ws, "CHUNK_NOT_AVAILABLE", chunkIndex)
  ELSE IF CacheFor.closed
    THEN sendError(ws, "DOWNLOAD_REQUEST_ERROR", chunkIndex)
  ELSE LET piece == CacheFor.pieces[chunkIndex]
           bytes == ReadAt(blob, piece.offset, piece.size)
       IN IF Len(bytes) # piece.size
            THEN sendError(ws, "READ_ERROR", chunkIndex)
            ELSE Msg(ws, "DOWNLOAD_CHUNK", chunkIndex, bytes, piece.hash, {}, 0)

\* DOWNLOAD_REQUEST for one index
handleDownloadRequest(ws, chunkIndex) ==
  /\ ws \in Consumers \cap open
  /\ ws \in clients => chunkIndex \in requests[ws]
  /\ requests' = [requests EXCEPT ![ws] = @ \ {chunkIndex}]
  /\ downloadCache' = IF build = "batched" THEN CacheFor ELSE downloadCache
  /\ sent' = {IF build = "plain" THEN plainRequest(ws, chunkIndex)
              ELSE batchedRequest(ws, chunkIndex)}
  /\ inbox' = Deliver(inbox, {m \in sent' : m.type = "DOWNLOAD_CHUNK"})
  /\ UNCHANGED <<build, replies, fileRow, pieces, blob, linked, activeUploads, upload,
                 activeDownloads, tasks, nextId, httpChunks, open, joined,
                 joinedActive, clients, uploader, clientVars, completeSent,
                 streamVars, quotaVars, planVars, wholeDownload, cacheHandles, pageVars>>

\* handleDownloadRequest up to the await of the read: the answers given
\* without reading the file, or "READ" when the handler goes on to read
plainLookup(ws, chunkIndex) ==
  IF fileRow = NoFile THEN sendError(ws, "FILE_NOT_FOUND", chunkIndex)
  ELSE IF chunkIndex \notin CompleteIndices
         THEN sendError(ws, "CHUNK_NOT_AVAILABLE", chunkIndex)
  ELSE Note(ws, "READ", chunkIndex)

batchedLookup(ws, chunkIndex) ==
  IF ~downloadCache.open /\ fileRow = NoFile
    THEN sendError(ws, "FILE_NOT_FOUND", chunkIndex)
  ELSE IF ~downloadCache.open /\ ~linked
    THEN sendError(ws, "DOWNLOAD_REQUEST_ERROR", chunkIndex)
  ELSE IF chunkIndex \notin DOMAIN CacheFor.pieces
    THEN sendError(ws, "CHUNK_NOT_AVAILABLE", chunkIndex)
  ELSE IF CacheFor.closed
    THEN sendError(ws, "DOWNLOAD_REQUEST_ERROR", chunkIndex)
  ELSE Note(ws, "READ", chunkIndex)

ReadTasks == {t \in tasks : t.kind = "read"}

\* what a consumer keeps of the answer to its request: whether it asked
\* after UPLOAD_COMPLETE, and which other consumers had a request for the
\* same index in flight when the answer was sent
Answer(m, after, peers) ==
  [type |-> m.type, data |-> m.data, after |-> after, peers |-> peers]

\* DOWNLOAD_REQUEST, the handler up to the await of the read; a consumer
\* asks for an index once
handleDownloadRequestLookup(ws, chunkIndex) ==
  /\ ws \in Consumers \cap open
  /\ replies[ws][chunkIndex] = NoReply
  /\ Cardinality(ReadTasks) < MaxInFlight
  /\ downloadCache' = IF build = "batched" THEN CacheFor ELSE downloadCache
  /\ LET m == IF build = "plain" THEN plainLookup(ws, chunkIndex)
              ELSE batchedLookup(ws, chunkIndex)
         piece == IF build = "plain" THEN pieces[chunkIndex]
                  ELSE CacheFor.pieces[chunkIndex]
         after == completeSent >= 1
     IN IF m.type = "READ"
          THEN /\ tasks' = tasks \cup
                    {[IdleTask EXCEPT !.kind = "read", !.ws = ws,
                                      !.chunkIndex = chunkIndex,
                                      !.pc = "read", !.piece = piece]}
               /\ replies' = [replies EXCEPT ![ws][chunkIndex] =
                                Answer(Note(ws, "pending", chunkIndex),
                                       after, {})]
               /\ sent' = {}
          ELSE /\ tasks' = tasks
               /\ replies' = [replies EXCEPT ![ws][chunkIndex] =
                                Answer(m, after, {})]
               /\ sent' = {m}
  /\ UNCHANGED <<build, fileRow, pieces, blob, linked, activeUploads, upload,
                 activeDownloads, nextId, httpChunks, open, joined,
                 joinedActive, clients, uploader, inbox, requests,
                 clientVars, completeSent, streamVars, quotaVars, planVars, wholeDownload, cacheHandles, pageVars>>

\* the handlers of piece requests that are creating the cache entry
LookupTasks == {t \in tasks : t.kind = "lookup"}

\* DOWNLOAD_REQUEST in the later revision, up to its first await:
\* downloadCache.get(fileId); with an entry the handler goes on as above,
\* without one it calls db.getFileById and yields
handleDownloadRequestGet(ws, chunkIndex) ==
  /\ build = "batched"
  /\ IF downloadCache.open
       THEN handleDownloadRequestLookup(ws, chunkIndex)
       ELSE /\ ws \in Consumers \cap open
            /\ replies[ws][chunkIndex] = NoReply
            /\ \A t \in LookupTasks : t.ws = ws => t.chunkIndex # chunkIndex
            /\ Cardinality(LookupTasks) < MaxInFlight
            /\ Len(cacheHandles.fds) + Cardinality(LookupTasks) < MaxHandles
            /\ tasks' = tasks \cup
                 {[IdleTask EXCEPT !.kind = "lookup", !.ws = ws,
                                   !.chunkIndex = chunkIndex,
                                   !.pc = "getFileById"]}
            /\ sent' = {}
            /\ UNCHANGED <<build, replies, fileRow, pieces, blob, linked,
                           activeUploads, upload, activeDownloads,
                           downloadCache, nextId, httpChunks, open, joined,
                           joinedActive, clients, uploader, inbox, requests,
                           clientVars, completeSent, streamVars, quotaVars,
                           planVars, wholeDownload, cacheHandles, pageVars>>

\* the entry a handler stores: the handle it opened and the complete rows
\* it read
NewCache(t) ==
  [open |-> TRUE, closed |-> FALSE,
   pieces |-> [i \in {p[1] : p \in t.toUpdate} |-> pieces[i]]]

\* handleDownloadRequest creating the cache entry, from an await on:
\* getFileById (FILE_NOT_FOUND without a row), getPiecesByFileId, then
\* fs.open, after which the handler stores its entry with
\* downloadCache.set(fileId, cache) and looks its piece up in it
handleDownloadRequestCache(t) ==
  /\ t \in LookupTasks
  /\ IF t.pc = "getFileById"
       THEN /\ IF fileRow = NoFile
                 THEN /\ tasks' = tasks \ {t}
                      /\ sent' = {sendError(t.ws, "FILE_NOT_FOUND",
                                            t.chunkIndex)}
                 ELSE /\ tasks' = (tasks \ {t})
                           \cup {[t EXCEPT !.pc = "getPiecesByFileId"]}
                      /\ sent' = {}
            /\ UNCHANGED <<downloadCache, cacheHandles, replies>>
     ELSE IF t.pc = "getPiecesByFileId"
       THEN /\ tasks' = (tasks \ {t})
                 \cup {[t EXCEPT !.pc = "open",
                                 !.toUpdate = {<<i, pieces[i].hash>> :
                                                 i \in CompleteIndices}]}
            /\ sent' = {}
            /\ UNCHANGED <<downloadCache, cacheHandles, replies>>
     ELSE IF ~linked
       THEN /\ tasks' = tasks \ {t}
            /\ sent' = {sendError(t.ws, "DOWNLOAD_REQUEST_ERROR",
                                  t.chunkIndex)}
            /\ UNCHANGED <<downloadCache, cacheHandles, replies>>
     ELSE LET cache == NewCache(t)
              fd == Len(cacheHandles.fds) + 1
              found == t.chunkIndex \in DOMAIN cache.pieces
              after == completeSent >= 1
          IN /\ cacheHandles' = [fds |-> Append(cacheHandles.fds, "open"),
                                 stored |-> fd]
             /\ downloadCache' = cache
             /\ IF found
                  THEN /\ tasks' = (tasks \ {t}) \cup
                            {[IdleTask EXCEPT
                                !.kind = "read", !.ws = t.ws,
                                !.chunkIndex = t.chunkIndex, !.pc = "read",
                                !.piece = cache.pieces[t.chunkIndex]]}
                       /\ replies' =
                            [replies EXCEPT ![t.ws][t.chunkIndex] =
                               Answer(Note(t.ws, "pending", t.chunkIndex),
                                      after, {})]
                       /\ sent' = {}
                  ELSE /\ tasks' = tasks \ {t}
                       /\ replies' =
                            [replies EXCEPT ![t.ws][t.chunkIndex] =
                               Answer(sendError(t.ws, "CHUNK_NOT_AVAILABLE",
                                                t.chunkIndex), after, {})]
                       /\ sent' = {sendError(t.ws, "CHUNK_NOT_AVAILABLE",
                                             t.chunkIndex)}
  /\ UNCHANGED <<build, fileRow, pieces, blob, linked, activeUploads, upload,
                 activeDownloads, nextId, httpChunks, open, joined,
                 joinedActive, clients, uploader, inbox, requests,
                 clientVars, completeSent, streamVars, quotaVars, planVars,
                 wholeDownload, pageVars>>

\* the answers a batch gives without reading the file, and the reads it
\* starts
BatchAnswers(ws, chunkIndices) ==
  {batchedLookup(ws, i) : i \in chunkIndices}
BatchReads(ws, chunkIndices) ==
  {[IdleTask EXCEPT !.kind = "read", !.ws = ws, !.chunkIndex = i,
                    !.pc = "read", !.piece = CacheFor.pieces[i]] :
     i \in {j \in chunkIndices : batchedLookup(ws, j).type = "READ"}}

\* a batch that handles its indices one after the other and gives up at the
\* first index it cannot serve
handleBatchDownloadRequestSerial(ws, chunkIndices) ==
  /\ build = "batched"
  /\ ws \in Consumers \cap open
  /\ chunkIndices # {}
  /\ \A i \in chunkIndices : replies[ws][i] = NoReply
  /\ Cardinality(ReadTasks) + Cardinality(chunkIndices) <= MaxInFlight
  /\ downloadCache' = CacheFor
  /\ LET bad == {i \in chunkIndices : batchedLookup(ws, i).type # "READ"}
         done == {i \in chunkIndices : \A b \in bad : i <= b}
     IN /\ tasks' = tasks \cup BatchReads(ws, done)
        /\ sent' = {m \in BatchAnswers(ws, done) : m.type # "READ"}
        /\ replies' = [replies EXCEPT ![ws] =
             [i \in DOMAIN @ |->
                IF i \notin done THEN @[i]
                ELSE IF batchedLookup(ws, i).type = "READ"
                  THEN Answer(Note(ws, "pending", i), completeSent >= 1, {})
                  ELSE Answer(batchedLookup(ws, i), completeSent >= 1, {})]]
  /\ UNCHANGED <<build, fileRow, pieces, blob, linked, activeUploads, upload,
                 activeDownloads, nextId, httpChunks, open, joined,
                 joinedActive, clients, uploader, inbox, requests,
                 clientVars, completeSent, streamVars, quotaVars, planVars, wholeDownload, cacheHandles, pageVars>>

\* handleBatchDownloadRequest: handleDownloadRequest is called for every
\* index of the batch, each call an invocation of its own that answers an
\* index it cannot serve and awaits the read of one it can
handleBatchDownloadRequest(ws, chunkIndices) ==
  /\ build = "batched"
  /\ ws \in Consumers \cap open
  /\ chunkIndices # {}
  /\ \A i \in chunkIndices : replies[ws][i] = NoReply
  /\ Cardinality(ReadTasks) + Cardinality(chunkIndices) <= MaxInFlight
  /\ downloadCache' = CacheFor
  /\ tasks' = tasks \cup BatchReads(ws, chunkIndices)
  /\ sent' = {m \in BatchAnswers(ws, chunkIndices) : m.type # "READ"}
  /\ replies' = [replies EXCEPT ![ws] =
       [i \in DOMAIN @ |->
          IF i \notin chunkIndices THEN @[i]
          ELSE IF batchedLookup(ws, i).type = "READ"
            THEN Answer(Note(ws, "pending", i), completeSent >= 1, {})
            ELSE Answer(batchedLookup(ws, i), completeSent >= 1, {})]]
  /\ UNCHANGED <<build, fileRow, pieces, blob, linked, activeUploads, upload,
                 activeDownloads, nextId, httpChunks, open, joined,
                 joinedActive, clients, uploader, inbox, requests,
                 clientVars, completeSent, streamVars, quotaVars, planVars, wholeDownload, cacheHandles, pageVars>>

\* websocket.js opens the file and reads; the later revision's read on the
\* cached handle was started before the await and needs no path
readChunk(t) ==
  IF build = "plain" /\ ~linked
    THEN sendError(t.ws, "DOWNLOAD_REQUEST_ERROR", t.chunkIndex)
  ELSE LET bytes == ReadAt(blob, t.piece.offset, t.piece.size)
       IN IF Len(bytes) # t.piece.size
            THEN sendError(t.ws, "READ_ERROR", t.chunkIndex)
            ELSE Msg(t.ws, "DOWNLOAD_CHUNK", t.chunkIndex, bytes,
                     t.piece.hash, {}, 0)

\* DOWNLOAD_REQUEST, the handler from the read on
handleDownloadRequestRead(t) ==
  /\ t \in ReadTasks
  /\ tasks' = tasks \ {t}
  /\ IF t.ws \in open
       THEN /\ sent' = {readChunk(t)}
            /\ replies' = [replies EXCEPT ![t.ws][t.chunkIndex] =
                 Answer(readChunk(t), @.after,
                        {o.ws : o \in {r \in ReadTasks \ {t} :
                                         r.chunkIndex = t.chunkIndex}})]
       ELSE /\ sent' = {}
            /\ replies' = replies
  /\ UNCHANGED <<build, fileRow, pieces, blob, linked, activeUploads, upload,
                 activeDownloads, downloadCache, nextId, httpChunks, open,
                 joined, joinedActive, clients, uploader, inbox, requests,
                 clientVars, completeSent, streamVars, quotaVars, planVars, wholeDownload, cacheHandles, pageVars>>

\* notifyDownloaders after its synchronous head: row lookup, read, fan-out
\* to the sockets of the download set that are OPEN
notifyDownloaders(t) ==
  /\ t \in NotifyTasks
  /\ tasks' = tasks \ {t}
  /\ sent' = {m \in {plainRequest(ws, t.chunkIndex) :
                       ws \in activeDownloads \cap open} :
                m.type = "DOWNLOAD_CHUNK"}
  /\ inbox' = Deliver(inbox, sent')
  /\ UNCHANGED <<build, replies, fileRow, pieces, blob, linked, activeUploads, upload,
                 activeDownloads, downloadCache, nextId, httpChunks, open,
                 joined, joinedActive, clients, uploader, requests,
                 clientVars, completeSent, streamVars, quotaVars, planVars, wholeDownload, cacheHandles, pageVars>>

\* DOWNLOAD_CANCEL; the download manager forgets the download when it
\* sends it
handleDownloadCancel(ws) ==
  /\ ws \in Consumers \cap open
  /\ ws \in joined
  /\ ws \in clients => download[ws].active
  /\ activeDownloads' = activeDownloads \ {ws}
  /\ download' = [download EXCEPT ![ws] = [@ EXCEPT !.active = FALSE]]
  /\ sent' = {}
  /\ UNCHANGED <<build, replies, fileRow, pieces, blob, linked, activeUploads, upload,
                 downloadCache, tasks, nextId, httpChunks, open, joined,
                 joinedActive, clients, uploader, inbox, requests,
                 initPending, clientTasks, clientWrites, retries,
                 completeSent, streamVars, quotaVars, planVars, wholeDownload, cacheHandles, pageVars>>

\* fileHandle.close() on the handle h
CloseHandle(h) ==
  [cacheHandles EXCEPT !.fds[h] = "closed"]

\* ws 'close': cleanupConnection. The later revision also closes the
\* session's file handle, and the handle of the download cache of a file
\* that lost its last subscriber and of every cache entry idle for more
\* than 5 minutes (stale); it awaits the close before it deletes the entry
cleanupConnection(ws, stale) ==
  /\ ws \in open
  /\ open' = open \ {ws}
  /\ LET owns == upload.ws = ws /\ TheFile \in activeUploads
         last == activeDownloads # {} /\ activeDownloads \ {ws} = {}
         closes == build = "batched" /\ (last \/ stale) /\ downloadCache.open
     IN /\ activeUploads' = IF owns THEN activeUploads \ {TheFile}
                            ELSE activeUploads
        /\ upload' = IF owns /\ build = "batched"
                       THEN [upload EXCEPT !.handleOpen = FALSE]
                       ELSE upload
        /\ activeDownloads' = activeDownloads \ {ws}
        /\ downloadCache' = IF closes
                              THEN [downloadCache EXCEPT !.closed = TRUE]
                              ELSE downloadCache
        /\ tasks' = IF closes
                      THEN tasks \cup {[IdleTask EXCEPT !.kind = "cleanup",
                                                        !.ws = ws,
                                                        !.pc = "delete"]}
                      ELSE tasks
        /\ cacheHandles' = IF closes /\ cacheHandles.stored # 0
                             THEN CloseHandle(cacheHandles.stored)
                             ELSE cacheHandles
  /\ IF ws \in Consumers
       THEN /\ inbox' = [inbox EXCEPT ![ws] = <<>>]
            /\ requests' = [requests EXCEPT ![ws] = {}]
       ELSE UNCHANGED <<inbox, requests>>
  /\ sent' = {}
  /\ UNCHANGED <<build, replies, fileRow, pieces, blob, linked, nextId,
                 httpChunks, joined, joinedActive, clients, uploader,
                 clientVars, completeSent, streamVars, quotaVars, planVars, wholeDownload, pageVars>>

\* cleanupConnection after `await cache.fileHandle.close()`:
\* downloadCache.delete(fileId)
cleanupConnectionDelete(t) ==
  /\ t \in tasks
  /\ t.kind = "cleanup"
  /\ tasks' = tasks \ {t}
  /\ downloadCache' = NoCache
  /\ cacheHandles' = [cacheHandles EXCEPT !.stored = 0]
  /\ sent' = {}
  /\ UNCHANGED <<build, replies, fileRow, pieces, blob, linked, activeUploads,
                 upload, activeDownloads, nextId, httpChunks, open, joined,
                 joinedActive, clients, uploader, inbox, requests,
                 clientVars, completeSent, streamVars, quotaVars, planVars, wholeDownload, pageVars>>

\* ------------------------------------------------------------ HTTP routes
\* DELETE /api/files/:fileId
deleteFile ==
  /\ fileRow # NoFile
  /\ linked' = FALSE
  /\ fileRow' = NoFile
  /\ pieces' = NoPieces
  /\ sent' = {}
  /\ UNCHANGED <<build, replies, blob, activeUploads, upload, activeDownloads,
                 downloadCache, tasks, nextId, httpChunks, open, joined,
                 joinedActive, clients, uploader, inbox, requests, clientVars,
                 completeSent, streamVars, quotaVars, planVars, wholeDownload, cacheHandles, pageVars>>

\* POST /api/upload/chunk/init: an empty file, the file row and the piece
\* rows, all incomplete with an empty hash (the sizes modelled are below the
\* storage limit)
chunkInit(size) ==
  /\ fileRow = NoFile
  /\ upload = NoUpload
  /\ size > 0
  /\ LET pieceSize == getPieceSize(size)
     IN /\ fileRow' = [size |-> size, piece_size |-> pieceSize,
                       total_pieces |-> CeilDiv(size, pieceSize)]
        /\ pieces' = PieceTable(size, pieceSize)
  /\ blob' = <<>>
  /\ linked' = TRUE
  /\ sent' = {}
  /\ UNCHANGED <<build, replies, activeUploads, upload, activeDownloads, downloadCache,
                 tasks, nextId, httpChunks, open, joined, joinedActive,
                 clients, uploader, inbox, requests, clientVars, completeSent,
                 streamVars, quotaVars, planVars, wholeDownload, cacheHandles, pageVars>>

\* POST /api/upload/chunk for a file that /chunk/init or UPLOAD_INIT
\* created: hash check, open with 'w' for piece 0 and 'r+' otherwise,
\* positional write, complete flag
postChunk(pieceIndex, data, hash) ==
  /\ fileRow # NoFile
  /\ httpChunks < MaxHttpChunks
  /\ httpChunks' = httpChunks + 1
  /\ IF hash = EmptyHash \/ hashPiece(data) # hash
          \/ (pieceIndex # 0 /\ ~linked)
       THEN UNCHANGED <<blob, linked, pieces>>
       ELSE /\ blob' = WriteAt(IF pieceIndex = 0 THEN <<>> ELSE blob,
                               pieceIndex * fileRow.piece_size, data)
            /\ linked' = TRUE
            /\ pieces' = [i \in DOMAIN pieces |->
                            IF i = pieceIndex
                              THEN [pieces[i] EXCEPT !.is_complete = 1]
                              ELSE pieces[i]]
  /\ sent' = {}
  /\ UNCHANGED <<build, replies, fileRow, activeUploads, upload, activeDownloads,
                 downloadCache, tasks, nextId, open, joined, joinedActive,
                 clients, uploader, inbox, requests, clientVars, completeSent,
                 streamVars, quotaVars, planVars, wholeDownload, cacheHandles, pageVars>>

\* db.updateFile(fileId, {size, pieceSize, totalPieces}): the callers are
\* in routes/files.js, the function is not in database.js
updateFile(row, size, pieceSize, totalPieces) ==
  [row EXCEPT !.size = size, !.piece_size = pieceSize,
              !.total_pieces = totalPieces]

\* processFile / processFileStream: the pieces of a file on disk, as
\* <<index, hash>>
FilePieces(bytes, pieceSize) ==
  {<<i, hashPiece(SubSeq(bytes, i * pieceSize + 1,
                         Min((i + 1) * pieceSize, Len(bytes))))>> :
     i \in 0..(CeilDiv(Len(bytes), pieceSize) - 1)}

\* POST /api/files with the fileId of a file that /chunk/init created: the
\* uploaded file is moved to the file's path, the file row gets the actual
\* size, the piece rows are deleted and created again, incomplete, when
\* their number is not the new totalPieces, and the processing of the file
\* starts in the background
postFiles(bytes) ==
  /\ fileRow # NoFile
  /\ LET fileSize == Len(bytes)
         pieceSize == getPieceSize(fileSize)
         totalPieces == CeilDiv(fileSize, pieceSize)
     IN /\ fileRow' = updateFile(fileRow, fileSize, pieceSize, totalPieces)
        /\ pieces' = IF Cardinality(DOMAIN pieces) # totalPieces
                       THEN PieceTable(fileSize, pieceSize)
                       ELSE pieces
        /\ tasks' = tasks \cup
             {[IdleTask EXCEPT !.kind = "process", !.pc = "process",
                               !.piece = [NoPiece EXCEPT !.size = pieceSize]]}
  /\ blob' = bytes
  /\ linked' = TRUE
  /\ sent' = {}
  /\ UNCHANGED <<build, replies, activeUploads, upload, activeDownloads,
                 downloadCache, nextId, httpChunks, open, joined,
                 joinedActive, clients, uploader, inbox, requests, clientVars,
                 completeSent, streamVars, quotaVars, planVars, wholeDownload, cacheHandles, pageVars>>

\* the background processing POST /api/files starts: every piece read from
\* the file gets its hash and the complete flag
processUploaded(t) ==
  /\ t \in tasks
  /\ t.kind = "process"
  /\ tasks' = tasks \ {t}
  /\ pieces' = IF linked
                 THEN UpdatePieces(pieces, FilePieces(blob, t.piece.size))
                 ELSE pieces
  /\ sent' = {}
  /\ UNCHANGED <<build, replies, fileRow, blob, linked, activeUploads, upload,
                 activeDownloads, downloadCache, nextId, httpChunks, open,
                 joined, joinedActive, clients, uploader, inbox, requests,
                 clientVars, completeSent, streamVars, quotaVars, planVars, wholeDownload, cacheHandles, pageVars>>

\* POST /api/upload/reprocess/:fileId: the hash of every piece is computed
\* from the file again and the piece is marked complete
reprocess ==
  /\ fileRow # NoFile
  /\ linked
  /\ pieces' = UpdatePieces(pieces, FilePieces(blob, fileRow.piece_size))
  /\ sent' = {}
  /\ UNCHANGED <<build, replies, fileRow, blob, linked, activeUploads, upload,
                 activeDownloads, downloadCache, tasks, nextId, httpChunks,
                 open, joined, joinedActive, clients, uploader, inbox,
                 requests, clientVars, completeSent, streamVars, quotaVars, planVars, wholeDownload, cacheHandles, pageVars>>

\* --------------------------------------------------- client: the uploader
\* uploadChunks/uploadNextChunk: the chunks are sent in index order, a
\* millisecond apart, without waiting for the replies; the data travels as
\* base64, which handleUploadChunk decodes
uploadNextChunk ==
  /\ uploader.started
  /\ uploader.currentChunkIndex < uploader.totalPieces
  /\ LET offset == uploader.currentChunkIndex * uploader.pieceSize
         currentChunkSize == Min(uploader.pieceSize, Len(FileBytes) - offset)
         chunk == SubSeq(FileBytes, offset + 1, offset + currentChunkSize)
         base64Data == toBase64(chunk)
     IN UploadChunk(Producer, uploader.currentChunkIndex,
                    fromBase64(base64Data), hashPiece(chunk))
  /\ uploader' = [uploader EXCEPT !.currentChunkIndex = @ + 1]

\* an UPLOAD_CHUNK message with any content
anyChunk(ws, chunkIndex, data, hash) ==
  /\ UploadChunk(ws, chunkIndex, data, hash)
  /\ UNCHANGED uploader

\* ------------------------------------------------- client: download manager
\* initHandler after its awaits: the download is tracked and every chunk
\* of the snapshot is requested
StartedDownload(msg, writable) ==
  [NoDownload EXCEPT !.active = TRUE, !.totalPieces = msg.totalPieces,
                     !.writable = writable]

\* WebSocketClient.handleMessage: the message handlers are called without
\* being awaited. initHandler suspends when it shows the save-file picker;
\* chunkHandler returns when the download is not tracked yet or the index is
\* already in receivedChunks, and otherwise suspends on the hash check
clientMessage(c, picker) ==
  /\ c \in clients \cap open
  /\ inbox[c] # <<>>
  /\ inbox' = [inbox EXCEPT ![c] = Tail(@)]
  /\ LET msg == Head(inbox[c])
     IN IF msg.type = "DOWNLOAD_INIT_SUCCESS"
          THEN IF picker
                 THEN /\ initPending' = [initPending EXCEPT ![c] = Append(@, msg)]
                      /\ UNCHANGED <<download, requests, clientTasks>>
                 ELSE /\ download' = [download EXCEPT ![c] =
                                        StartedDownload(msg, FALSE)]
                      /\ requests' = [requests EXCEPT ![c] = @ \cup msg.chunks]
                      /\ UNCHANGED <<initPending, clientTasks>>
          ELSE /\ picker = FALSE
               /\ clientTasks' =
                    IF download[c].active
                         /\ msg.index \notin download[c].receivedChunks
                      THEN [clientTasks EXCEPT ![c] = Append(@, msg)]
                      ELSE clientTasks
               /\ UNCHANGED <<download, requests, initPending>>
  /\ sent' = {}
  /\ UNCHANGED <<build, replies, serverVars, nextId, httpChunks, open, joined,
                 joinedActive, clients, uploader, clientWrites, retries,
                 completeSent, streamVars, quotaVars, planVars, wholeDownload, cacheHandles, pageVars>>

initHandler(c, granted) ==
  /\ c \in clients \cap open
  /\ initPending[c] # <<>>
  /\ initPending' = [initPending EXCEPT ![c] = Tail(@)]
  /\ download' = [download EXCEPT ![c] =
                    StartedDownload(Head(initPending[c]), granted)]
  /\ requests' = [requests EXCEPT ![c] = @ \cup Head(initPending[c]).chunks]
  /\ sent' = {}
  /\ UNCHANGED <<build, replies, serverVars, nextId, httpChunks, open, joined,
                 joinedActive, clients, uploader, inbox, clientTasks,
                 clientWrites, retries, completeSent, streamVars, quotaVars, planVars, wholeDownload, cacheHandles, pageVars>>

RemoveAt(seq, k) ==
  [j \in 1..(Len(seq) - 1) |-> IF j < k THEN seq[j] ELSE seq[j + 1]]

\* assembleFileFromChunks: the chunks of the store sorted by pieceIndex,
\* their data concatenated
RECURSIVE assembleFileFromChunks(_)
assembleFileFromChunks(chunks) ==
  IF DOMAIN chunks = {} THEN <<>>
  ELSE LET i == CHOOSE k \in DOMAIN chunks : \A j \in DOMAIN chunks : k <= j
       IN chunks[i] \o
          assembleFileFromChunks([k \in DOMAIN chunks \ {i} |-> chunks[k]])

\* chunkHandler from its last await on: the chunk is counted as received;
\* the download that has every chunk is completed (the .part file becomes
\* the final file, or the file is assembled from the store) and forgotten
Received(d, index, partFile, chunks) ==
  LET received == d.receivedChunks \cup {index}
      all == Cardinality(received) = d.totalPieces
  IN [d EXCEPT !.receivedChunks = received,
               !.active = @ /\ ~all,
               !.completed = IF all THEN @ + 1 ELSE @,
               !.partFile = partFile,
               !.chunks = chunks,
               !.assembled = IF ~all THEN @
                             ELSE IF d.writable THEN partFile
                             ELSE assembleFileFromChunks(chunks)]

\* chunkHandler after the hash check: a chunk whose hash does not match is
\* requested again; with a writable stream the handler seeks to the offset
\* of the piece (the offset of its row, sent with the chunk) and awaits the
\* seek; without one the chunk is put in the store, keyed by its index
chunkHandler(c, k) ==
  /\ c \in clients \cap open
  /\ k \in 1..Len(clientTasks[c])
  /\ clientTasks' = [clientTasks EXCEPT ![c] = RemoveAt(@, k)]
  /\ LET msg == clientTasks[c][k]
         bytes == fromBase64(toBase64(msg.data))
     IN IF msg.hash # EmptyHash /\ hashPiece(bytes) # msg.hash
          THEN /\ retries[c] < MaxRetries
               /\ retries' = [retries EXCEPT ![c] = @ + 1]
               /\ requests' = [requests EXCEPT ![c] = @ \cup {msg.index}]
               /\ UNCHANGED <<download, clientWrites>>
        ELSE IF download[c].writable
          THEN /\ download' = [download EXCEPT ![c] =
                    [@ EXCEPT !.position = pieces[msg.index].offset,
                              !.seeking = Append(@, msg)]]
               /\ UNCHANGED <<clientWrites, retries, requests>>
          ELSE /\ clientWrites' = [clientWrites EXCEPT ![c][msg.index] = @ + 1]
               /\ download' = [download EXCEPT ![c] =
                    Received(@, msg.index, @.partFile,
                             SetHash(@.chunks, msg.index, bytes))]
               /\ UNCHANGED <<retries, requests>>
  /\ sent' = {}
  /\ UNCHANGED <<build, replies, serverVars, nextId, httpChunks, open, joined,
                 joinedActive, clients, uploader, inbox, initPending,
                 completeSent, streamVars, quotaVars, planVars, wholeDownload, cacheHandles, pageVars>>

\* chunkHandler after `await download.writableStream.seek(offset)`: the
\* bytes are written where the stream's cursor is, which moves past them
chunkHandlerWrite(c, k) ==
  /\ c \in clients \cap open
  /\ k \in 1..Len(download[c].seeking)
  /\ LET msg == download[c].seeking[k]
         bytes == fromBase64(toBase64(msg.data))
         d == [download[c] EXCEPT !.seeking = RemoveAt(@, k),
                                  !.position = @ + Len(bytes)]
     IN /\ download' = [download EXCEPT ![c] =
             Received(d, msg.index,
                      WriteAt(d.partFile, download[c].position, bytes),
                      d.chunks)]
        /\ clientWrites' = [clientWrites EXCEPT ![c][msg.index] = @ + 1]
  /\ sent' = {}
  /\ UNCHANGED <<build, replies, serverVars, nextId, httpChunks, open, joined,
                 joinedActive, clients, uploader, inbox, requests,
                 initPending, clientTasks, retries, completeSent, streamVars,
                 quotaVars, planVars, wholeDownload, cacheHandles, pageVars>>

\* GET /api/download/:fileId?piece=N, the response: 404 without the file row
\* or the piece row, 206 with a JSON error for a piece that is not complete
\* or a file that is not there, 206 with the bytes read when fewer than the
\* piece's size were read, 200 with the piece otherwise
getPieceResponse(pieceIndex) ==
  IF fileRow = NoFile THEN Note("http", "HTTP_404", pieceIndex)
  ELSE IF pieceIndex \notin Indices THEN Note("http", "HTTP_404", pieceIndex)
  ELSE IF pieces[pieceIndex].is_complete # 1
         THEN Note("http", "HTTP_206_NOT_AVAILABLE", pieceIndex)
  ELSE IF ~linked THEN Note("http", "HTTP_206_NOT_AVAILABLE", pieceIndex)
  ELSE LET requestedPiece == pieces[pieceIndex]
           buffer == ReadAt(blob, requestedPiece.offset, requestedPiece.size)
       IN Msg("http", IF Len(buffer) < requestedPiece.size THEN "HTTP_206"
                      ELSE "HTTP_200",
              pieceIndex, buffer, EmptyHash, {}, 0)

\* the statuses that carry bytes of the file; fetch's response.ok is true
\* for them and downloadManager.js stores the body as the piece
HttpBody == {"HTTP_200", "HTTP_206"}

\* GET /api/download/:fileId?piece=N
getPiece(pieceIndex) ==
  /\ sent' = {getPieceResponse(pieceIndex)}
  /\ UNCHANGED <<build, replies, serverVars, nextId, httpChunks, open, joined,
                 joinedActive, clients, uploader, inbox, requests, clientVars,
                 completeSent, streamVars, quotaVars, planVars, wholeDownload, cacheHandles, pageVars>>

\* a set of piece indices sorted by piece_index
RECURSIVE SortedIndices(_)
SortedIndices(idxs) ==
  IF idxs = {} THEN <<>>
  ELSE LET i == CHOOSE k \in idxs : \A j \in idxs : k <= j
       IN <<i>> \o SortedIndices(idxs \ {i})

\* what fd.read returns for the row of a piece; opening a file that is not
\* there throws, and the route's catch logs it
PieceBytes(i) ==
  IF linked THEN ReadAt(blob, pieces[i].offset, pieces[i].size) ELSE <<>>

\* the bytes res.write receives for a sorted list of rows
RECURSIVE WritePieces(_)
WritePieces(order) ==
  IF order = <<>> THEN <<>>
  ELSE PieceBytes(Head(order)) \o WritePieces(Tail(order))

\* GET /api/download/:fileId without a piece, in the revision that streams
\* a file that is not complete yet: 404 without the row; the whole file
\* when every piece is complete; otherwise the complete pieces in index
\* order, with a poll every second for more
getFile ==
  /\ wholeDownload.state = "new"
  /\ IF fileRow = NoFile
       THEN wholeDownload' = [NoWhole EXCEPT !.state = "notfound"]
     ELSE IF Cardinality(CompleteIndices) # fileRow.total_pieces
       THEN LET availablePieces == SortedIndices(CompleteIndices)
            IN wholeDownload' =
                 [state |-> "polling",
                  totalPieces |-> fileRow.total_pieces,
                  available |-> Len(availablePieces),
                  streamed |-> SelectSeq(availablePieces,
                                         LAMBDA i : Len(PieceBytes(i)) > 0),
                  body |-> WritePieces(availablePieces)]
       ELSE wholeDownload' =
              [NoWhole EXCEPT !.state = IF linked THEN "ended" ELSE "failed",
                              !.body = IF linked THEN blob ELSE <<>>]
  /\ UNCHANGED <<wsVars, streamVars, quotaVars, planVars, cacheHandles, pageVars>>

\* the callback of the poll: the complete rows whose piece_index is at
\* least availablePieces.length are written and pushed to availablePieces;
\* the response is ended when the number of complete rows is the
\* total_pieces of the file row the request read
pollInterval ==
  /\ wholeDownload.state = "polling"
  /\ LET newCompletePieces ==
           SortedIndices({i \in CompleteIndices :
                            i >= wholeDownload.available})
         written == SelectSeq(newCompletePieces,
                              LAMBDA i : Len(PieceBytes(i)) > 0)
     IN wholeDownload' =
          [wholeDownload EXCEPT
             !.available = @ + Len(written),
             !.streamed = @ \o written,
             !.body = @ \o WritePieces(written),
             !.state = IF Cardinality(CompleteIndices) =
                            wholeDownload.totalPieces
                         THEN "ended" ELSE "polling"]
  /\ UNCHANGED <<wsVars, streamVars, quotaVars, planVars, cacheHandles, pageVars>>

\* --------------------------------------------------------------- Next, Spec
Next ==
  \/ \E size \in Sizes : handleUploadInit(Producer, size)
  \/ \E i \in ChunkIndices, d \in Payloads, h \in Hashes \cup {EmptyHash} :
       anyChunk(Producer, i, d, h)
  \/ \E t \in tasks : handleUploadChunk(t)
  \/ \E t \in tasks : notifyDownloaders(t)
  \/ handleDownloadInit(Listener)
  \/ \E i \in ChunkIndices : handleDownloadRequest(Listener, i)
  \/ handleDownloadCancel(Listener)
  \/ \E ws \in {Producer, Listener}, stale \in BOOLEAN :
       cleanupConnection(ws, stale)
  \/ \E t \in tasks : cleanupConnectionDelete(t)
  \/ deleteFile

Spec == Init /\ [][Next]_vars

HttpNext ==
  \/ \E size \in Sizes : chunkInit(size)
  \/ \E i \in ChunkIndices, d \in Payloads, h \in Hashes \cup {EmptyHash} :
       postChunk(i, d, h)
  \/ \E i \in ChunkIndices : handleDownloadRequest(Listener, i)
  \/ \E i \in ChunkIndices : getPiece(i)
  \/ deleteFile
  \/ \E bytes \in Uploads : postFiles(bytes)
  \/ \E t \in tasks : processUploaded(t)
  \/ reprocess

HttpSpec == HttpInit /\ [][HttpNext]_vars

ClientNext ==
  \/ handleUploadInit(Producer, Len(FileBytes))
  \/ uploadNextChunk
  \/ \E t \in tasks : handleUploadChunk(t)
  \/ \E t \in tasks : notifyDownloaders(t)
  \/ \E c \in Consumers : handleDownloadInit(c)
  \/ \E c \in clients, i \in ChunkIndices : handleDownloadRequest(c, i)
  \/ \E c \in clients : handleDownloadCancel(c)
  \/ \E ws \in {Producer} \cup clients, stale \in BOOLEAN :
       cleanupConnection(ws, stale)
  \/ \E t \in tasks : cleanupConnectionDelete(t)
  \/ \E c \in clients, picker \in BOOLEAN : clientMessage(c, picker)
  \/ \E c \in clients, granted \in BOOLEAN : initHandler(c, granted)
  \/ \E c \in clients : \E k \in DOMAIN clientTasks[c] : chunkHandler(c, k)
  \/ \E c \in clients : \E k \in DOMAIN download[c].seeking :
       chunkHandlerWrite(c, k)

ClientSpec == ClientInit /\ [][ClientNext]_vars

\* the server with two consumers whose piece requests overlap: both
\* subscribe and ask for pieces, and Listener cancels and disconnects
PeerNext ==
  \/ \E size \in Sizes : handleUploadInit(Producer, size)
  \/ \E i \in PieceIndices, d \in Payloads :
       anyChunk(Producer, i, d, hashPiece(d))
  \/ \E t \in tasks : handleUploadChunk(t)
  \/ \E t \in tasks : notifyDownloaders(t)
  \/ \E c \in Consumers : handleDownloadInit(c)
  \/ \E c \in Consumers, i \in AskedIndices :
       handleDownloadRequestLookup(c, i)
  \/ \E t \in tasks : handleDownloadRequestRead(t)
  \/ handleDownloadCancel(Listener)
  \/ \E stale \in BOOLEAN : cleanupConnection(Listener, stale)
  \/ \E t \in tasks : cleanupConnectionDelete(t)

PeerSpec == Init /\ [][PeerNext]_vars

\* the later revision with a consumer that asks for pieces in batches
BatchInit ==
  /\ build = "batched"
  /\ clients = {}
  /\ WsIdle
  /\ StreamIdle
  /\ QuotaIdle
  /\ PlanIdle

Batches == {I \in SUBSET ChunkIndices : I # {}}

BatchNext ==
  \/ \E size \in Sizes : handleUploadInit(Producer, size)
  \/ \E i \in PieceIndices, d \in Payloads :
       anyChunk(Producer, i, d, hashPiece(d))
  \/ \E t \in tasks : handleUploadChunk(t)
  \/ \E t \in tasks : notifyDownloaders(t)
  \/ handleDownloadInit(Listener)
  \/ \E I \in Batches : handleBatchDownloadRequest(Listener, I)
  \/ \E t \in tasks : handleDownloadRequestRead(t)
  \/ \E stale \in BOOLEAN : cleanupConnection(Listener, stale)
  \/ \E t \in tasks : cleanupConnectionDelete(t)

BatchSpec == BatchInit /\ [][BatchNext]_vars

\* an upload over the WebSocket and one whole-file download over HTTP
WholeInit ==
  /\ build = "plain"
  /\ clients = {}
  /\ WsIdle
  /\ StreamIdle
  /\ QuotaIdle
  /\ PlanIdle

WholeNext ==
  \/ \E size \in Sizes : handleUploadInit(Producer, size)
  \/ \E i \in PieceIndices, d \in Payloads :
       anyChunk(Producer, i, d, hashPiece(d))
  \/ \E t \in tasks : handleUploadChunk(t)
  \/ getFile
  \/ pollInterval

WholeSpec == WholeInit /\ [][WholeNext]_vars

\* the same server where every handler that awaits is resumed; when the
\* sockets send messages and when they close stays up to the peers
CacheLiveSpec ==
  /\ BatchSpec
  /\ WF_vars(\E t \in tasks : handleUploadChunk(t))
  /\ WF_vars(\E t \in tasks : notifyDownloaders(t))
  /\ WF_vars(\E t \in tasks : handleDownloadRequestRead(t))
  /\ WF_vars(\E t \in tasks : cleanupConnectionDelete(t))

\* ------------------------------------------------- live-streaming server
\* zip.js holds the Express server of backend/src: POST /upload/:fileId and
\* GET /download/:fileId over one in-memory map fileId -> UploadSession.
\* streamReqs[r] is the session object the handlers of request r close over
NoSession == 0
\* paused: req.pause() was called and req.resume() was not yet; drainWaits:
\* the streams ("disk" or a download response) whose next 'drain' event
\* resumes the request
NewRequest == [state |-> "new", fileId |-> "none", uploadedBytes |-> 0,
               completed |-> FALSE, downloadResponses |-> {},
               paused |-> FALSE, drainWaits |-> {}]
\* stalled: the response's buffer is full, its write() returns false
NewDownload == [state |-> "new", session |-> NoSession, fileId |-> "none",
                upto |-> 0, got |-> <<>>, stalled |-> FALSE]
NoStreamFile == [exists |-> FALSE, bytes |-> <<>>]
\* res.status(...).json(...) to an upload or to a download request
Response(r, d, status) == [upload |-> r, download |-> d, status |-> status]

StreamInit ==
  /\ build = "plain"
  /\ clients = {}
  /\ WsIdle
  /\ streamUploads = [f \in StreamFileIds |-> NoSession]
  /\ streamReqs = [r \in UploadReqs |-> NewRequest]
  /\ streamFiles = [f \in StreamFileIds |-> NoStreamFile]
  /\ streamDownloads = [d \in DownloadReqs |-> NewDownload]
  /\ streamLast = <<>>
  /\ QuotaIdle
  /\ PlanIdle

\* downloadRes.end() / downloadRes.destroy() on every response of a session
EndResponses(ds, how) ==
  [d \in DownloadReqs |->
     IF d \in ds /\ streamDownloads[d].state = "live"
       THEN [streamDownloads[d] EXCEPT !.state = how]
       ELSE streamDownloads[d]]

\* the same start without the activeUploads.has(fileId) test
postUploadUnguarded(r, fileId) ==
  /\ streamReqs[r].state = "new"
  /\ \A q \in 1..(r - 1) : streamReqs[q].state # "new"
  /\ streamUploads' = [streamUploads EXCEPT ![fileId] = r]
  /\ streamReqs' = [streamReqs EXCEPT ![r] =
                      [NewRequest EXCEPT !.state = "open", !.fileId = fileId]]
  /\ streamFiles' = [streamFiles EXCEPT ![fileId] =
                       [exists |-> TRUE, bytes |-> <<>>]]
  /\ UNCHANGED <<streamDownloads, streamLast>>
  /\ UNCHANGED <<wsVars, quotaVars, planVars, wholeDownload, cacheHandles, pageVars>>

\* app.post('/upload/:fileId') up to the registration of the handlers (the
\* requests are numbered in the order they arrive):
\* 409 when the map has the fileId, otherwise a write stream (which
\* truncates the file) and a new session in the map
postUpload(r, fileId) ==
  /\ streamReqs[r].state = "new"
  /\ \A q \in 1..(r - 1) : streamReqs[q].state # "new"
  /\ IF streamUploads[fileId] # NoSession
       THEN /\ streamReqs' = [streamReqs EXCEPT ![r] =
                 [NewRequest EXCEPT !.state = "rejected", !.fileId = fileId]]
            /\ streamLast' = Response(r, "none", 409)
            /\ UNCHANGED <<streamUploads, streamFiles, streamDownloads>>
       ELSE /\ streamUploads' = [streamUploads EXCEPT ![fileId] = r]
            /\ streamReqs' = [streamReqs EXCEPT ![r] =
                 [NewRequest EXCEPT !.state = "open", !.fileId = fileId]]
            /\ streamFiles' = [streamFiles EXCEPT ![fileId] =
                                 [exists |-> TRUE, bytes |-> <<>>]]
            /\ UNCHANGED <<streamDownloads, streamLast>>
  /\ UNCHANGED <<wsVars, quotaVars, planVars, wholeDownload, cacheHandles, pageVars>>

\* the bytes request r uploads
StreamChunk(r) == <<r>>

\* the responses req.on('data') writes the chunk to
LiveResponses(r) ==
  {d \in streamReqs[r].downloadResponses : streamDownloads[d].state = "live"}

\* the same handler with the write to a response outside the inner try: the
\* exception reaches the outer catch, which destroys the write stream and
\* every response and deletes the session
onDataFatal(r, chunk, canContinue, failing) ==
  /\ streamReqs[r].state = "open"
  /\ ~streamReqs[r].paused
  /\ streamReqs[r].uploadedBytes < MaxStreamData
  /\ failing \subseteq LiveResponses(r)
  /\ IF failing # {}
       THEN /\ streamReqs' = [streamReqs EXCEPT ![r] =
                 [@ EXCEPT !.uploadedBytes = @ + Len(chunk),
                           !.state = "failed"]]
            /\ streamDownloads' =
                 [d \in DownloadReqs |->
                    IF d \in failing
                      THEN [streamDownloads[d] EXCEPT !.state = "failed"]
                      ELSE EndResponses(streamReqs[r].downloadResponses,
                                        "destroyed")[d]]
            /\ streamUploads' =
                 [streamUploads EXCEPT ![streamReqs[r].fileId] = NoSession]
            /\ streamLast' = Response(r, "none", 500)
       ELSE /\ streamReqs' = [streamReqs EXCEPT ![r] =
                 [@ EXCEPT !.uploadedBytes = @ + Len(chunk)]]
            /\ streamDownloads' =
                 [d \in DownloadReqs |->
                    IF d \in LiveResponses(r)
                      THEN [streamDownloads[d] EXCEPT !.got = @ \o chunk]
                      ELSE streamDownloads[d]]
            /\ UNCHANGED <<streamUploads, streamLast>>
  /\ streamFiles' = [streamFiles EXCEPT ![streamReqs[r].fileId].bytes =
                       @ \o chunk]
  /\ UNCHANGED <<wsVars, quotaVars, planVars, wholeDownload, cacheHandles, pageVars>>

\* req.on('data'): count, write to disk, fan out to the session's responses.
\* canContinue is what writeStream.write returns; failing are the responses
\* whose write throws: the inner catch deletes them from the set. A write
\* that returns false (the disk's, or a stalled response's) pauses the
\* request until that stream emits 'drain'
onData(r, chunk, canContinue, failing) ==
  /\ streamReqs[r].state = "open"
  /\ ~streamReqs[r].paused
  /\ streamReqs[r].uploadedBytes < MaxStreamData
  /\ failing \subseteq LiveResponses(r)
  /\ LET written == LiveResponses(r) \ failing
         full == {d \in written : streamDownloads[d].stalled}
                   \cup (IF canContinue THEN {} ELSE {"disk"})
     IN /\ streamReqs' = [streamReqs EXCEPT ![r] =
             [@ EXCEPT !.uploadedBytes = @ + Len(chunk),
                       !.downloadResponses = @ \ failing,
                       !.paused = full # {},
                       !.drainWaits = @ \cup full]]
        /\ streamDownloads' =
             [d \in DownloadReqs |->
                IF d \in written
                  THEN [streamDownloads[d] EXCEPT !.got = @ \o chunk]
                ELSE IF d \in failing
                  THEN [streamDownloads[d] EXCEPT !.state = "failed"]
                ELSE streamDownloads[d]]
  /\ streamFiles' = [streamFiles EXCEPT ![streamReqs[r].fileId].bytes =
                       @ \o chunk]
  /\ UNCHANGED <<streamUploads, streamLast>>
  /\ UNCHANGED <<wsVars, quotaVars, planVars, wholeDownload, cacheHandles, pageVars>>

\* writeStream 'drain': the listener req.on('data') registered resumes the
\* request
writeDrain(r) ==
  /\ "disk" \in streamReqs[r].drainWaits
  /\ streamReqs' = [streamReqs EXCEPT ![r] =
                      [@ EXCEPT !.paused = FALSE, !.drainWaits = @ \ {"disk"}]]
  /\ UNCHANGED <<streamUploads, streamFiles, streamDownloads, streamLast>>
  /\ UNCHANGED <<wsVars, quotaVars, planVars, wholeDownload, cacheHandles, pageVars>>

\* the consumer of a response stops reading: the response's buffer fills
downloadStall(d) ==
  /\ streamDownloads[d].state = "live"
  /\ ~streamDownloads[d].stalled
  /\ streamDownloads' = [streamDownloads EXCEPT ![d].stalled = TRUE]
  /\ UNCHANGED <<streamUploads, streamReqs, streamFiles, streamLast>>
  /\ UNCHANGED <<wsVars, quotaVars, planVars, wholeDownload, cacheHandles, pageVars>>

\* the consumer reads again and the buffer empties: downloadRes emits
\* 'drain' when a write had returned false, and the listener resumes the
\* request
downloadDrain(d) ==
  /\ streamDownloads[d].state = "live"
  /\ streamDownloads[d].stalled
  /\ streamDownloads' = [streamDownloads EXCEPT ![d].stalled = FALSE]
  /\ LET r == streamDownloads[d].session
     IN streamReqs' =
          IF d \in streamReqs[r].drainWaits
            THEN [streamReqs EXCEPT ![r] =
                    [@ EXCEPT !.paused = FALSE, !.drainWaits = @ \ {d}]]
            ELSE streamReqs
  /\ UNCHANGED <<streamUploads, streamFiles, streamLast>>
  /\ UNCHANGED <<wsVars, quotaVars, planVars, wholeDownload, cacheHandles, pageVars>>

\* req.on('end'), which a paused request does not emit: the session is
\* completed, its responses are ended, the map entry of the fileId is
\* deleted
onEnd(r) ==
  /\ streamReqs[r].state = "open"
  /\ ~streamReqs[r].paused
  /\ streamReqs' = [streamReqs EXCEPT ![r] =
                      [@ EXCEPT !.state = "ended", !.completed = TRUE,
                                !.downloadResponses = {}]]
  /\ streamDownloads' = EndResponses(streamReqs[r].downloadResponses, "ended")
  /\ streamUploads' = [streamUploads EXCEPT ![streamReqs[r].fileId] = NoSession]
  /\ streamLast' = Response(r, "none", 200)
  /\ UNCHANGED streamFiles
  /\ UNCHANGED <<wsVars, quotaVars, planVars, wholeDownload, cacheHandles, pageVars>>

\* req.on('error') followed by req.on('close') (a destroyed request emits
\* both in one tick): responses destroyed, map entry deleted, partial file
\* unlinked
onError(r) ==
  /\ streamReqs[r].state = "open"
  /\ streamReqs' = [streamReqs EXCEPT ![r].state = "closed"]
  /\ streamDownloads' =
       EndResponses(streamReqs[r].downloadResponses, "destroyed")
  /\ streamUploads' = [streamUploads EXCEPT ![streamReqs[r].fileId] = NoSession]
  /\ streamFiles' = [streamFiles EXCEPT ![streamReqs[r].fileId] = NoStreamFile]
  /\ streamLast' = Response(r, "none", 500)
  /\ UNCHANGED <<wsVars, quotaVars, planVars, wholeDownload, cacheHandles, pageVars>>

\* req.on('close'): nothing for a completed session; otherwise the map
\* entry of the fileId is deleted and the responses are destroyed
onClose(r) ==
  /\ streamReqs[r].state \in {"open", "ended"}
  /\ streamReqs' = [streamReqs EXCEPT ![r].state = "closed"]
  /\ IF streamReqs[r].completed
       THEN UNCHANGED <<streamUploads, streamDownloads>>
       ELSE /\ streamUploads' =
                 [streamUploads EXCEPT ![streamReqs[r].fileId] = NoSession]
            /\ streamDownloads' =
                 EndResponses(streamReqs[r].downloadResponses, "destroyed")
  /\ UNCHANGED <<streamFiles, streamLast>>
  /\ UNCHANGED <<wsVars, quotaVars, planVars, wholeDownload, cacheHandles, pageVars>>

\* app.get('/download/:fileId'): catch-up read of a session that has bytes,
\* the live set of a session that has none, the whole file of a finished
\* upload, or 404
getDownload(d, fileId) ==
  /\ streamDownloads[d].state = "new"
  /\ LET r == streamUploads[fileId]
     IN IF r # NoSession /\ ~streamReqs[r].completed
          THEN IF streamReqs[r].uploadedBytes > 0
                 THEN /\ streamDownloads' = [streamDownloads EXCEPT ![d] =
                           [@ EXCEPT !.state = "catchup", !.session = r,
                                     !.fileId = fileId,
                                     !.upto = streamReqs[r].uploadedBytes]]
                      /\ UNCHANGED <<streamReqs, streamLast>>
                 ELSE /\ streamDownloads' = [streamDownloads EXCEPT ![d] =
                           [@ EXCEPT !.state = "live", !.session = r,
                                     !.fileId = fileId]]
                      /\ streamReqs' = [streamReqs EXCEPT
                           ![r].downloadResponses = @ \cup {d}]
                      /\ UNCHANGED streamLast
          ELSE IF streamFiles[fileId].exists
                 THEN /\ streamDownloads' = [streamDownloads EXCEPT ![d] =
                           [@ EXCEPT !.state = "ended", !.fileId = fileId,
                                     !.got = streamFiles[fileId].bytes]]
                      /\ UNCHANGED <<streamReqs, streamLast>>
                 ELSE /\ streamDownloads' = [streamDownloads EXCEPT ![d] =
                           [@ EXCEPT !.state = "notfound", !.fileId = fileId]]
                      /\ streamLast' = Response(NoSession, d, 404)
                      /\ UNCHANGED streamReqs
  /\ UNCHANGED <<streamUploads, streamFiles>>
  /\ UNCHANGED <<wsVars, quotaVars, planVars, wholeDownload, cacheHandles, pageVars>>

\* readStream.on('end') of the catch-up read: the response joins the
\* downloadResponses of the session the request found
catchUpEnd(d) ==
  /\ streamDownloads[d].state = "catchup"
  /\ LET bytes == streamFiles[streamDownloads[d].fileId].bytes
     IN streamDownloads' = [streamDownloads EXCEPT ![d] =
          [@ EXCEPT !.state = "live",
                    !.got = SubSeq(bytes, 1, Min(streamDownloads[d].upto,
                                                 Len(bytes)))]]
  /\ streamReqs' = [streamReqs EXCEPT
       ![streamDownloads[d].session].downloadResponses = @ \cup {d}]
  /\ UNCHANGED <<streamUploads, streamFiles, streamLast>>
  /\ UNCHANGED <<wsVars, quotaVars, planVars, wholeDownload, cacheHandles, pageVars>>

\* res.on('close'): the response leaves the session's set
downloadClose(d) ==
  /\ streamDownloads[d].state \in {"catchup", "live"}
  /\ streamDownloads' = [streamDownloads EXCEPT ![d].state = "closed"]
  /\ streamReqs' =
       IF streamDownloads[d].state = "live"
         THEN [streamReqs EXCEPT
                 ![streamDownloads[d].session].downloadResponses = @ \ {d}]
         ELSE streamReqs
  /\ UNCHANGED <<streamUploads, streamFiles, streamLast>>
  /\ UNCHANGED <<wsVars, quotaVars, planVars, wholeDownload, cacheHandles, pageVars>>

\* uploads and one download of two fileIds; every write succeeds at once
StreamNext ==
  \/ \E r \in UploadReqs, f \in StreamFileIds : postUpload(r, f)
  \/ \E r \in UploadReqs : onData(r, StreamChunk(r), TRUE, {})
  \/ \E r \in UploadReqs : onEnd(r)
  \/ \E r \in UploadReqs : onError(r)
  \/ \E r \in UploadReqs : onClose(r)
  \/ \E d \in StallReqs, f \in StreamFileIds : getDownload(d, f)
  \/ \E d \in StallReqs : catchUpEnd(d)
  \/ \E d \in StallReqs : downloadClose(d)

StreamSpec == StreamInit /\ [][StreamNext]_vars

\* the same server where every catch-up read comes to its end and every
\* finished request is closed; what the clients send, and when they
\* disconnect, stays up to them
StreamLiveSpec ==
  /\ StreamSpec
  /\ \A d \in StallReqs : WF_vars(catchUpEnd(d))
  /\ \A r \in UploadReqs : WF_vars(streamReqs[r].state = "ended" /\ onClose(r))

\* uploads and two downloads of one fileId, with writes that return false
\* and writes that throw
FanoutNext ==
  \/ \E r \in UploadReqs : postUpload(r, FanoutFile)
  \/ \E r \in UploadReqs, canContinue \in BOOLEAN,
          failing \in SUBSET FailReqs :
       onData(r, StreamChunk(r), canContinue, failing)
  \/ \E r \in UploadReqs : writeDrain(r)
  \/ \E d \in StallReqs : downloadStall(d)
  \/ \E d \in StallReqs : downloadDrain(d)
  \/ \E r \in UploadReqs : onEnd(r)
  \/ \E r \in UploadReqs : onError(r)
  \/ \E r \in UploadReqs : onClose(r)
  \/ \E d \in DownloadReqs : getDownload(d, FanoutFile)
  \/ \E d \in DownloadReqs : catchUpEnd(d)
  \/ \E d \in DownloadReqs : downloadClose(d)

FanoutSpec == StreamInit /\ [][FanoutNext]_vars

\* --------------------------------------------------- storage accounting
\* STORAGE_LIMIT, set by the environment (default 100GB), in cells
StorageLimit == 4

RECURSIVE SumSizes(_)
SumSizes(ids) ==
  IF ids = {} THEN 0
  ELSE LET f == CHOOSE x \in ids : TRUE
       IN quotaFiles[f].size + SumSizes(ids \ {f})

\* db.getTotalStorageUsed: SELECT COALESCE(SUM(size), 0) FROM files
getTotalStorageUsed == SumSizes({f \in QuotaIds : quotaFiles[f].row})

\* uuidv4(): an id no row, no file and no upload in flight has
FreeIds ==
  {f \in QuotaIds : /\ quotaFiles[f] = NoStored
                    /\ \A t \in quotaTasks : t.fileId # f}
NewFileId == CHOOSE f \in FreeIds : \A g \in FreeIds : f <= g

QuotaTask(kind, ws, size, fileId, pc) ==
  [kind |-> kind, ws |-> ws, size |-> size, fileId |-> fileId, pc |-> pc]

\* handleUploadInit up to `await db.createFile`: the storage used is read
\* and compared; a connection has one UPLOAD_INIT in flight
uploadInitCheck(ws, size) ==
  /\ FreeIds # {}
  /\ \A t \in quotaTasks : t.ws # ws
  /\ IF getTotalStorageUsed + size > StorageLimit
       THEN /\ quotaSent' = [to |-> ws, type |-> "STORAGE_LIMIT_EXCEEDED",
                             fileId |-> 0]
            /\ quotaTasks' = quotaTasks
       ELSE /\ quotaSent' = NoResponse
            /\ quotaTasks' = quotaTasks \cup
                 {QuotaTask("ws", ws, size, NewFileId, "createFile")}
  /\ UNCHANGED <<quotaFiles, wsVars, streamVars, planVars, wholeDownload, cacheHandles, pageVars>>

\* handleUploadInit: db.createFile takes effect
uploadInitCreateFile(t) ==
  /\ t \in quotaTasks
  /\ t.pc = "createFile"
  /\ quotaFiles' = [quotaFiles EXCEPT ![t.fileId] =
                      [@ EXCEPT !.row = TRUE, !.size = t.size]]
  /\ quotaTasks' = (quotaTasks \ {t}) \cup {[t EXCEPT !.pc = "createPieces"]}
  /\ quotaSent' = NoResponse
  /\ UNCHANGED <<wsVars, streamVars, planVars, wholeDownload, cacheHandles, pageVars>>

\* handleUploadInit from db.createPieces on: the piece rows, the empty
\* file, the session, UPLOAD_INIT_SUCCESS
uploadInitFinish(t) ==
  /\ t \in quotaTasks
  /\ t.pc = "createPieces"
  /\ quotaFiles' = [quotaFiles EXCEPT ![t.fileId] =
                      [@ EXCEPT !.pieceRows =
                                  CeilDiv(t.size, getPieceSize(t.size)),
                                !.onDisk = TRUE, !.bytes = 0]]
  /\ quotaTasks' = quotaTasks \ {t}
  /\ quotaSent' = [to |-> t.ws, type |-> "UPLOAD_INIT_SUCCESS",
                   fileId |-> t.fileId]
  /\ UNCHANGED <<wsVars, streamVars, planVars, wholeDownload, cacheHandles, pageVars>>

\* StreamingProcessingStorage._handleFile, which multer runs before the
\* handler of POST /api/upload/files: the file row and the piece rows are
\* created on the first chunk, every chunk is written to the file
handleFile(size) ==
  /\ FreeIds # {}
  /\ \A t \in quotaTasks : t.kind # "http"
  /\ quotaFiles' = [quotaFiles EXCEPT ![NewFileId] =
                      [row |-> TRUE, size |-> size,
                       pieceRows |-> CeilDiv(size, getPieceSize(size)),
                       onDisk |-> TRUE, bytes |-> size]]
  /\ quotaTasks' = quotaTasks \cup
                     {QuotaTask("http", "none", size, NewFileId, "route")}
  /\ quotaSent' = NoResponse
  /\ UNCHANGED <<wsVars, streamVars, planVars, wholeDownload, cacheHandles, pageVars>>

\* checkStorageSpace(requiredBytes).hasSpace
hasSpace(requiredBytes) ==
  StorageLimit - getTotalStorageUsed >= requiredBytes

\* router.post('/files') of routes/upload.js: the storage check on the size
\* of the uploaded files; 413 after unlinking them, or the file's info
postUploadFiles(t) ==
  /\ t \in quotaTasks
  /\ t.pc = "route"
  /\ quotaTasks' = quotaTasks \ {t}
  /\ IF ~hasSpace(t.size)
       THEN /\ quotaFiles' = [quotaFiles EXCEPT ![t.fileId] =
                 [@ EXCEPT !.onDisk = FALSE, !.bytes = 0]]
            /\ quotaSent' = [to |-> "none", type |-> "413",
                             fileId |-> t.fileId]
       ELSE /\ quotaFiles' = quotaFiles
            /\ quotaSent' = [to |-> "none", type |-> "200",
                             fileId |-> t.fileId]
  /\ UNCHANGED <<wsVars, streamVars, planVars, wholeDownload, cacheHandles, pageVars>>

QuotaInit ==
  /\ build = "plain"
  /\ clients = {}
  /\ WsIdle
  /\ StreamIdle
  /\ QuotaIdle
  /\ PlanIdle

\* UPLOAD_INIT on the connections of the WebSocket server
QuotaNext ==
  \/ \E ws \in Conns, size \in QuotaSizes : uploadInitCheck(ws, size)
  \/ \E t \in quotaTasks : uploadInitCreateFile(t)
  \/ \E t \in quotaTasks : uploadInitFinish(t)

QuotaSpec == QuotaInit /\ [][QuotaNext]_vars

\* UPLOAD_INIT and POST /api/upload/files
HttpQuotaNext ==
  \/ QuotaNext
  \/ \E size \in QuotaSizes : handleFile(size)
  \/ \E t \in quotaTasks : postUploadFiles(t)

HttpQuotaSpec == QuotaInit /\ [][HttpQuotaNext]_vars

\* ------------------------------------------------------------- piece plan
\* a browser copy whose first threshold belongs to the smaller piece size
getPieceSizeBrowserInclusive(fileSize) ==
  IF fileSize <= 128 * MiB THEN KiB64
  ELSE IF fileSize < GiB THEN (256 * 1024) \div Unit
  ELSE IF fileSize < 4 * GiB THEN (512 * 1024) \div Unit
  ELSE IF fileSize < 16 * GiB THEN MiB
  ELSE IF fileSize < 64 * GiB THEN 2 * MiB
  ELSE IF fileSize < 256 * GiB THEN 4 * MiB
  ELSE 8 * MiB

\* frontend/src/utils/chunking.js: the browser's copy of getPieceSize
getPieceSizeBrowser(fileSize) ==
  IF fileSize < 128 * MiB THEN KiB64
  ELSE IF fileSize < GiB THEN (256 * 1024) \div Unit
  ELSE IF fileSize < 4 * GiB THEN (512 * 1024) \div Unit
  ELSE IF fileSize < 16 * GiB THEN MiB
  ELSE IF fileSize < 64 * GiB THEN 2 * MiB
  ELSE IF fileSize < 256 * GiB THEN 4 * MiB
  ELSE 8 * MiB

\* the sizes at which getPieceSize changes its answer
Thresholds == {128 * MiB, GiB, 4 * GiB, 16 * GiB, 64 * GiB, 256 * GiB}

\* declared sizes: up to a few pieces, 200 MiB, and the two sizes at every
\* threshold
PlanSizes ==
  (1..8) \cup {200 * MiB} \cup {t + d : t \in Thresholds, d \in {-1, 0}}

\* the plan of the browser: its piece size, and the slices uploadChunks
\* cuts with it (offset index * pieceSize, length min(pieceSize, remaining)),
\* one for every index whose offset is inside the file
browserPlan(fileSize) ==
  LET pieceSize == getPieceSizeBrowser(fileSize)
      totalPieces == CeilDiv(fileSize, pieceSize)
  IN [pieceSize |-> pieceSize,
      totalPieces |-> totalPieces,
      table |-> [i \in 0..(totalPieces - 1) |->
                   [offset |-> i * pieceSize,
                    size |-> Min(pieceSize, fileSize - i * pieceSize)]]]

\* the browser computes the plan of the declared size
planBrowser ==
  /\ planCalls < MaxPlanCalls
  /\ planCalls' = planCalls + 1
  /\ clientPlan' = browserPlan(planSize)
  /\ UNCHANGED <<planSize, wsVars, streamVars, quotaVars, wholeDownload, cacheHandles, pageVars>>

PlanInit ==
  /\ build = "plain"
  /\ clients = {}
  /\ WsIdle
  /\ StreamIdle
  /\ QuotaIdle
  /\ planSize \in PlanSizes
  /\ clientPlan = NoPlan
  /\ planCalls = 0
  /\ wholeDownload = NoWhole
  /\ cacheHandles = NoHandles
  /\ PageIdle

\* UPLOAD_INIT with the declared size, and the browser's own computation
PlanNext ==
  \/ handleUploadInit(Producer, planSize)
  \/ planBrowser

PlanSpec == PlanInit /\ [][PlanNext]_vars

\* ------------------------------------------------------------ properties
\* C1: every UPLOAD_CHUNK the server accepts and marks complete has
\* hash(bytes) = claimed hash = stored hash, and a chunk refused for its
\* hash changes neither the file nor the piece rows and is pushed to nobody
C1_AcceptedHashMatches ==
  /\ [][\A m \in sent' :
       (m.type = "UPLOAD_CHUNK_SUCCESS" /\ m.index \in DOMAIN pieces'
          /\ pieces'[m.index].is_complete = 1)
       => (m.hash = hashPiece(m.data)
             /\ pieces'[m.index].hash = hashPiece(m.data))]_vars
  /\ [][(\E m \in sent' : m.type = "HASH_MISMATCH")
          => (pieces' = pieces /\ blob' = blob /\ tasks' = tasks)]_vars

\* C2: a piece marked complete has, as stored hash, the hash of the bytes
\* now in the file at [offset, offset + size)
C2_CompleteHashOfBlob ==
  \A i \in CompleteIndices :
    pieces[i].hash = hashPiece(ReadAt(blob, pieces[i].offset, pieces[i].size))

\* C3: no gap. A consumer that joined during the upload and stayed
\* subscribed and connected has, once the upload completed and nothing is
\* in flight any more, received every index 0..totalPieces-1
C3_NoGap ==
  \A c \in clients :
    (/\ c \in joinedActive /\ c \in open /\ c \in activeDownloads
     /\ fileRow # NoFile /\ completeSent >= 1 /\ tasks = {}
     /\ inbox[c] = <<>> /\ requests[c] = {} /\ initPending[c] = <<>>
     /\ clientTasks[c] = <<>>)
    => \A i \in 0..(fileRow.total_pieces - 1) : clientWrites[c][i] >= 1

\* C4: no duplicate. The download writes and counts each index at most once
C4_NoDuplicate ==
  \A c \in clients : \A i \in ChunkIndices : clientWrites[c][i] <= 1

\* C5: the push of an accepted piece of the file reaches every socket that
\* is subscribed and open when notifyDownloaders runs, whatever the
\* position of the piece in the upload
C5_EveryAcceptedPiecePushed ==
  [][\A t \in NotifyTasks :
       (/\ t \notin tasks' /\ fileRow # NoFile /\ linked
        /\ t.chunkIndex \in DOMAIN pieces
        /\ Len(ReadAt(blob, pieces[t.chunkIndex].offset,
                      pieces[t.chunkIndex].size)) = pieces[t.chunkIndex].size)
       => \A ws \in activeDownloads \cap open :
            \E m \in sent' : /\ m.to = ws /\ m.type = "DOWNLOAD_CHUNK"
                             /\ m.index = t.chunkIndex]_vars

\* C6: UPLOAD_COMPLETE is sent only when the file exists and every index
\* 0..totalPieces-1 is complete
C6_CompleteOnlyWhenAllComplete ==
  [][(\E m \in sent' : m.type = "UPLOAD_COMPLETE")
       => (/\ fileRow' # NoFile
           /\ \A i \in 0..(upload'.totalPieces - 1) :
                i \in DOMAIN pieces' /\ pieces'[i].is_complete = 1)]_vars

\* C7: a chunk for an index that is already complete is a no-op: the file,
\* the piece rows and the deliveries to subscribers stay as they are
C7_DuplicateIsNoOp ==
  [][\A t \in tasks :
       (t.dup /\ t \notin tasks')
       => (/\ blob' = blob /\ pieces' = pieces
           /\ \A m \in sent' : m.type # "DOWNLOAD_CHUNK")]_vars

\* C8: pieces are stored independently of the order they are submitted in:
\* once every index has been submitted once and is complete, the bytes of
\* every piece are in the file
C8_AnyOrder ==
  (/\ fileRow # NoFile /\ httpChunks = fileRow.total_pieces
   /\ CompleteIndices = 0..(fileRow.total_pieces - 1))
  => \A i \in CompleteIndices :
       ReadAt(blob, pieces[i].offset, pieces[i].size) # <<>>

\* C9: a chunk whose length differs from the planned length of its index is
\* not accepted
C9_WrongLengthRejected ==
  [][\A m \in sent' :
       (m.type = "UPLOAD_CHUNK_SUCCESS" /\ m.index \in DOMAIN pieces')
       => Len(m.data) = pieces'[m.index].size]_vars

\* C10: at most one upload session is active per fileId, and a second
\* POST /upload/:fileId for a fileId that has one gets 409 and leaves the
\* map, the sessions, the files and the download responses as they are
C10_OneIngestSession ==
  /\ [](\A f \in StreamFileIds :
          /\ Cardinality({r \in UploadReqs : /\ streamReqs[r].state = "open"
                                             /\ streamReqs[r].fileId = f}) <= 1
          /\ \A r \in UploadReqs :
               (streamReqs[r].state = "open" /\ streamReqs[r].fileId = f)
               => streamUploads[f] = r)
  /\ [][\A r \in UploadReqs :
          (/\ streamReqs[r].state = "new" /\ streamReqs'[r].state # "new"
           /\ streamUploads[streamReqs'[r].fileId] # NoSession)
          => (/\ streamLast' = Response(r, "none", 409)
              /\ streamReqs'[r].state = "rejected"
              /\ streamUploads' = streamUploads
              /\ \A q \in UploadReqs \ {r} : streamReqs'[q] = streamReqs[q]
              /\ streamFiles' = streamFiles
              /\ streamDownloads' = streamDownloads)]_vars

\* a second upload was refused while the first session had received bytes
\* and had a live download response
C10_Witness ==
  \E r \in UploadReqs :
    /\ streamReqs[r].state = "rejected"
    /\ streamLast = Response(r, "none", 409)
    /\ LET o == streamUploads[streamReqs[r].fileId]
       IN /\ o # NoSession
          /\ streamReqs[o].state = "open"
          /\ streamReqs[o].uploadedBytes > 0
          /\ streamReqs[o].downloadResponses # {}

\* C11: when the producer's socket closes while its upload is active, the
\* session is removed, the partial file is deleted and no file row and no
\* piece rows stay in the metadata store
C11_AbortLeavesNothing ==
  [][(/\ Producer \in open /\ Producer \notin open'
      /\ upload.ws = Producer /\ TheFile \in activeUploads)
     => (/\ TheFile \notin activeUploads' /\ ~linked'
         /\ fileRow' = NoFile /\ pieces' = NoPieces)]_vars

\* C12: when the producer's socket closes while its upload is active, every
\* socket subscribed to the file and open is sent exactly one message
C12_AbortNotifiesSubscribers ==
  [][(/\ Producer \in open /\ Producer \notin open'
      /\ upload.ws = Producer /\ TheFile \in activeUploads)
     => \A ws \in activeDownloads \cap open' :
          Cardinality({m \in sent' : m.to = ws}) = 1]_vars

\* C13: once the producer has disconnected from an upload that never
\* completed, no join lists a piece of the file as available and no bytes
\* of the file are sent to anyone
C13_NoPartialDownload ==
  [][(/\ upload.ws = Producer /\ Producer \notin open
      /\ TheFile \notin activeUploads /\ completeSent = 0)
     => \A m \in sent' :
          /\ m.type # "DOWNLOAD_CHUNK"
          /\ m.type = "DOWNLOAD_INIT_SUCCESS" => m.chunks = {}]_vars

\* C14: a piece request for an index that is complete in the piece rows is
\* never answered CHUNK_NOT_AVAILABLE
C14_CompleteIsServed ==
  [][\A m \in sent' :
       m.type = "CHUNK_NOT_AVAILABLE" => m.index \notin CompleteIndices]_vars

\* C15: a piece request for an index outside 0..totalPieces-1 is answered
\* "not found", never with the "not ready" answer of a valid index
C15_OutOfRangeIsNotFound ==
  [][\A m \in sent' :
       (m.type = "CHUNK_NOT_AVAILABLE" /\ fileRow # NoFile)
       => m.index \in 0..(fileRow.total_pieces - 1)]_vars

\* C16: consumers that joined at different times and ask for an index once
\* the upload has completed all receive the piece, with the same bytes
C16_JoinTimeIrrelevant ==
  \A c \in joined : \A i \in PieceIndices :
    (replies[c][i].after /\ replies[c][i].type \notin {"none", "pending"})
    => /\ replies[c][i].type = "DOWNLOAD_CHUNK"
       /\ \A d \in joined :
            (/\ replies[d][i].after
             /\ replies[d][i].type \notin {"none", "pending"})
            => replies[d][i].data = replies[c][i].data

\* C17: two consumers whose requests for the same complete index were in
\* flight together receive the same answer with the same bytes
C17_ConcurrentReadsAgree ==
  \A c \in Consumers : \A i \in PieceIndices : \A d \in replies[c][i].peers :
    replies[d][i].type \notin {"none", "pending"}
    => /\ replies[d][i].type = replies[c][i].type
       /\ replies[d][i].data = replies[c][i].data

\* C20: a consumer's DOWNLOAD_CANCEL or disconnect removes that consumer's
\* subscription and nothing else: the session, the file, the piece rows
\* and the other subscriptions stay, and every other consumer's request for
\* a piece that was served before is served the same afterwards
C20_ConsumerLeaveIsLocal ==
  [][\A ws \in Consumers :
       (\/ ws \in open /\ ws \notin open'
        \/ open' = open /\ ws \in activeDownloads /\ ws \notin activeDownloads')
       => (/\ activeUploads' = activeUploads /\ upload' = upload
           /\ fileRow' = fileRow /\ pieces' = pieces
           /\ blob' = blob /\ linked' = linked
           /\ activeDownloads' = activeDownloads \ {ws}
           /\ \A d \in Consumers \ {ws} : \A i \in PieceIndices :
                LET before == IF build = "plain" THEN plainRequest(d, i)
                              ELSE batchedRequest(d, i)
                    after == (IF build = "plain" THEN plainRequest(d, i)
                              ELSE batchedRequest(d, i))'
                IN before.type = "DOWNLOAD_CHUNK" => after = before)]_vars

\* C18: as long as the file is not deleted, an index that is complete stays
\* complete
C18_CompletenessMonotonic ==
  [][(fileRow # NoFile /\ fileRow' # NoFile)
     => CompleteIndices \subseteq CompleteIndices']_vars

\* C19: once every piece of the file is complete, nothing but the deletion
\* of the file changes the bytes of the file or its piece rows
C19_CompleteIsImmutable ==
  [][(/\ fileRow # NoFile /\ fileRow' # NoFile
      /\ CompleteIndices = 0..(fileRow.total_pieces - 1))
     => (blob' = blob /\ pieces' = pieces)]_vars

\* C21: a subscriber whose transport cannot accept data never delays the
\* producer: an upload request is never paused waiting only for the drain
\* of download responses
C21_StalledSubscriberDoesNotBlock ==
  \A r \in UploadReqs :
    ~(/\ streamReqs[r].state = "open"
      /\ streamReqs[r].paused
      /\ streamReqs[r].drainWaits # {}
      /\ streamReqs[r].drainWaits \subseteq DownloadReqs)

\* C22: when the write of a chunk to one download response fails, the
\* upload session goes on (it stays in the map, the chunk is in the file)
\* and every other live response of the session is written the chunk and
\* stays in the session's set
C22_DeliveryFailureIsolated ==
  [][\A r \in UploadReqs : \A d \in LiveResponses(r) :
       streamDownloads'[d].state = "failed"
       => (/\ streamReqs'[r].state = "open"
           /\ streamUploads'[streamReqs[r].fileId] = r
           /\ streamFiles'[streamReqs[r].fileId].bytes =
                streamFiles[streamReqs[r].fileId].bytes \o StreamChunk(r)
           /\ \A e \in LiveResponses(r) :
                streamDownloads'[e].state # "failed"
                => (/\ e \in streamReqs'[r].downloadResponses
                    /\ streamDownloads'[e].state = "live"
                    /\ streamDownloads'[e].got =
                         streamDownloads[e].got \o StreamChunk(r)))]_vars

\* the write to one response of a session threw while another response of
\* the same session was live: that one has the chunk, the session is open
C22_Witness ==
  \E d \in DownloadReqs, e \in DownloadReqs, r \in UploadReqs :
    /\ streamDownloads[d].state = "failed"
    /\ streamDownloads[d].session = r
    /\ streamDownloads[e].state = "live"
    /\ streamDownloads[e].session = r
    /\ e \in streamReqs[r].downloadResponses
    /\ streamReqs[r].state = "open"
    /\ streamUploads[streamReqs[r].fileId] = r
    /\ Len(streamDownloads[e].got) > Len(streamDownloads[d].got)

\* an UPLOAD_CHUNK for index i with the bytes d and their hash is taken up:
\* the handler goes on to write d at index i
Resubmit(i, d) ==
  /\ anyChunk(Producer, i, d, hashPiece(d))
  /\ \E t \in tasks' \ tasks :
       t.kind = "upload" /\ t.chunkIndex = i /\ t.data = d /\ t.pc = "write"

\* C23: a chunk refused with HASH_MISMATCH changes nothing: the piece rows
\* (so the piece stays incomplete), the file, the session and the pending
\* work are as before and the session is still active; and a chunk for the
\* same index with matching bytes and hash is then taken up (as long as the
\* bounds of the model admit another chunk)
C23_HashMismatchIsLocal ==
  /\ [][(\E m \in sent' : m.type = "HASH_MISMATCH")
          => (/\ serverVars' = serverVars
              /\ open' = open /\ completeSent' = completeSent
              /\ TheFile \in activeUploads')]_vars
  /\ [](\A m \in sent :
          (/\ m.type = "HASH_MISMATCH"
           /\ nextId < MaxChunks /\ Cardinality(tasks) < MaxInFlight)
          => \A d \in Payloads : ENABLED Resubmit(m.index, d))

\* a chunk for an incomplete piece of an upload that has accepted another
\* chunk was just refused for its hash
C23_Witness ==
  \E m \in sent :
    /\ m.type = "HASH_MISMATCH"
    /\ m.index \in Indices \ CompleteIndices
    /\ upload.uploadedChunks # {}
    /\ TheFile \in activeUploads

\* C24: an upload that does not fit in the storage left is refused before
\* anything is written: the refusal of an UPLOAD_INIT leaves rows and files
\* as they were, and after the 413 of an HTTP upload that did not fit (the
\* rows of the other files and its own size exceed the limit) the fileId
\* has no file row, no piece rows and no bytes on disk
C24_RejectedBeforeWrite ==
  [][/\ quotaSent'.type = "STORAGE_LIMIT_EXCEEDED"
          => quotaFiles' = quotaFiles
     /\ (quotaSent'.type = "413" /\ getTotalStorageUsed > StorageLimit)
          => quotaFiles'[quotaSent'.fileId] = NoStored]_vars

\* C25: the sizes of the file rows never add up to more than STORAGE_LIMIT
C25_WithinStorageLimit ==
  getTotalStorageUsed <= StorageLimit

\* the bytes of the pieces in index order, read from the file as the piece
\* rows say
RECURSIVE StoredPieces(_)
StoredPieces(idxs) ==
  IF idxs = {} THEN <<>>
  ELSE LET i == CHOOSE k \in idxs : \A j \in idxs : k <= j
       IN ReadAt(blob, pieces[i].offset, pieces[i].size)
          \o StoredPieces(idxs \ {i})

\* C26: round trip. Once the upload of the browser uploader completed, the
\* pieces of the file in index order are the bytes of the input, and the
\* file a download manager has completed is the bytes of the input
C26_RoundTrip ==
  /\ (completeSent >= 1 /\ fileRow # NoFile)
       => StoredPieces(Indices) = FileBytes
  /\ \A c \in clients :
       download[c].completed >= 1 => download[c].assembled = FileBytes

\* C27: the HTTP piece endpoint and the message protocol agree. A response
\* of GET /api/download/:fileId?piece=N that carries bytes for a complete
\* index carries the whole piece and the bytes the DOWNLOAD_CHUNK reply for
\* the index carries, and a DOWNLOAD_CHUNK reply carries the whole piece
C27_HttpAgreesWithProtocol ==
  [][\A m \in sent' :
       /\ (m.to = "http" /\ m.type \in HttpBody
             /\ m.index \in CompleteIndices)
            => /\ Len(m.data) = pieces[m.index].size
               /\ LET w == plainRequest(Listener, m.index)
                  IN w.type = "DOWNLOAD_CHUNK"
                       => fromBase64(toBase64(w.data)) = m.data
       /\ (m.type = "DOWNLOAD_CHUNK" /\ m.index \in DOMAIN pieces')
            => Len(fromBase64(toBase64(m.data))) = pieces'[m.index].size]_vars

\* the sum of the lengths of the pieces lo..hi of a table
RECURSIVE SumLengths(_, _, _)
SumLengths(table, lo, hi) ==
  IF lo > hi THEN 0
  ELSE IF lo = hi THEN table[lo].size
  ELSE LET mid == (lo + hi) \div 2
       IN SumLengths(table, lo, mid) + SumLengths(table, mid + 1, hi)

\* C28: the piece table created at upload init for a size S > 0: the
\* lengths of the pieces sum to S, and the offset of every piece is the sum
\* of the lengths of the pieces before it (0 for the first piece, and the
\* offset plus the length of its predecessor for every other one), so only
\* the last piece may be shorter than pieceSize
C28_PieceTableCoversFile ==
  fileRow # NoFile =>
    /\ Indices = 0..(fileRow.total_pieces - 1)
    /\ SumLengths(pieces, 0, fileRow.total_pieces - 1) = fileRow.size
    /\ \A i \in Indices :
         /\ pieces[i].offset =
              IF i = 0 THEN 0 ELSE pieces[i - 1].offset + pieces[i - 1].size
         /\ pieces[i].size > 0
         /\ i < fileRow.total_pieces - 1
              => pieces[i].size = fileRow.piece_size
    /\ \A i \in Indices \cap (0..4) :
         pieces[i].offset = SumLengths(pieces, 0, i - 1)

\* a table whose last piece is shorter than the ones before it
C28_Witness ==
  /\ fileRow # NoFile
  /\ fileRow.total_pieces > 1
  /\ pieces[fileRow.total_pieces - 1].size < fileRow.piece_size

C30_SamePlanBothEnds ==
  /\ [](fileRow # NoFile =>
          /\ fileRow.size = planSize
          /\ getPieceSize(planSize) = fileRow.piece_size
          /\ getPieceSizeBrowser(planSize) = fileRow.piece_size)
  /\ []((fileRow # NoFile /\ clientPlan # NoPlan) =>
          /\ clientPlan.pieceSize = fileRow.piece_size
          /\ clientPlan.totalPieces = fileRow.total_pieces
          /\ DOMAIN clientPlan.table = Indices
          /\ \A i \in Indices :
               /\ clientPlan.table[i].offset = pieces[i].offset
               /\ clientPlan.table[i].size = pieces[i].size)
  /\ [][clientPlan # NoPlan => clientPlan' = clientPlan]_vars

\* both ends have planned a file whose size is a threshold of the bucket
\* table, the browser twice
C30_Witness ==
  /\ fileRow # NoFile
  /\ planSize \in Thresholds
  /\ planCalls = MaxPlanCalls
  /\ clientPlan # NoPlan

\* ------------------------------------------ one upload, repeated chunk messages
\* files of a single piece: the first accepted chunk is also the last one
OnePieceSizes == {1, 2}

FinalNext ==
  \/ \E size \in OnePieceSizes : handleUploadInit(Producer, size)
  \/ \E i \in PieceIndices, d \in Payloads, h \in Hashes \cup {EmptyHash} :
       anyChunk(Producer, i, d, h)
  \/ \E t \in tasks : handleUploadChunk(t)
  \/ \E t \in tasks : notifyDownloaders(t)
  \/ handleDownloadInit(Listener)

FinalSpec == Init /\ [][FinalNext]_vars


\* ------------------------------------- chunk messages from any open connection
\* UPLOAD_CHUNK names the session by fileId only, so every open connection
\* that knows the fileId can send one
ForeignNext ==
  \/ \E size \in Sizes : handleUploadInit(Producer, size)
  \/ \E ws \in {Producer, Listener}, i \in PieceIndices, d \in Payloads,
        h \in Hashes \cup {EmptyHash} :
       anyChunk(ws, i, d, h)
  \/ \E t \in tasks : handleUploadChunk(t)
  \/ \E t \in tasks : notifyDownloaders(t)
  \/ handleDownloadInit(Listener)

ForeignSpec == Init /\ [][ForeignNext]_vars


\* --------------------------- later revision: the creation of the cache entry
\* piece requests whose handlers yield while they create the cache entry
HandleNext ==
  \/ \E size \in Sizes : handleUploadInit(Producer, size)
  \/ \E i \in PieceIndices, d \in Payloads :
       anyChunk(Producer, i, d, hashPiece(d))
  \/ \E t \in tasks : handleUploadChunk(t)
  \/ \E t \in tasks : notifyDownloaders(t)
  \/ handleDownloadInit(Listener)
  \/ \E i \in PieceIndices : handleDownloadRequestGet(Listener, i)
  \/ \E t \in tasks : handleDownloadRequestCache(t)
  \/ \E t \in tasks : handleDownloadRequestRead(t)
  \/ \E stale \in BOOLEAN : cleanupConnection(Listener, stale)
  \/ \E t \in tasks : cleanupConnectionDelete(t)

HandleSpec == BatchInit /\ [][HandleNext]_vars


\* ------------------------------- browser page: uploads sharing one connection
\* a message of the server to the page; sendError puts no fileId in its
\* payload (fileId "none"); cause names the upload whose message the server
\* answered
PageMsg(type, fileId, errorType, uploadedChunks, cause) ==
  [type |-> type, fileId |-> fileId, errorType |-> errorType,
   uploadedChunks |-> uploadedChunks, cause |-> cause]

isResolved(s) == s.state \in {"resolved", "rejected"}

\* the handlers uploadFileViaWebSocket registers, as functions of the state
\* s of the upload u they belong to
pageInitHandler(s, u, m) ==
  IF s.state # "init" \/ m.cause # u THEN s
  ELSE [s EXCEPT !.state = "uploading", !.fileId = m.fileId]

pageChunkHandler(s, m) ==
  IF s.fileId = "none" \/ m.fileId # s.fileId THEN s
  ELSE [s EXCEPT !.uploadedChunks = m.uploadedChunks]

completeHandler(s, m) ==
  IF m.fileId # s.fileId \/ isResolved(s) THEN s
  ELSE [s EXCEPT !.state = "resolved"]

errorHandler(s, m) ==
  IF s.fileId # "none" /\ m.fileId # "none" /\ m.fileId # s.fileId THEN s
  ELSE IF m.errorType \in {"AUTH_REQUIRED", "UPLOAD_INIT_ERROR",
                           "UPLOAD_CHUNK_ERROR", "STORAGE_LIMIT_EXCEEDED",
                           "HASH_MISMATCH"} /\ ~isResolved(s)
    THEN [s EXCEPT !.state = "rejected"]
  ELSE s

pageHandler(s, u, m) ==
  IF m.type = "UPLOAD_INIT_SUCCESS" THEN pageInitHandler(s, u, m)
  ELSE IF m.type = "UPLOAD_CHUNK_SUCCESS" THEN pageChunkHandler(s, m)
  ELSE IF m.type = "UPLOAD_COMPLETE" THEN completeHandler(s, m)
  ELSE errorHandler(s, m)

\* wsClient.off: splice of the handler out of the array
offHandler(handlers, u) ==
  SelectSeq(handlers, LAMBDA h : h # u)

\* WebSocketClient.handleMessage: forEach over the array of the message's
\* type, from position k; forEach visits the positions below the length the
\* array had at the start that still exist, so after a handler removed
\* itself the handler that moved into its position is not visited
RECURSIVE forEachHandler(_, _, _, _, _)
forEachHandler(k, len, handlers, ups, m) ==
  IF k > len \/ k > Len(handlers)
    THEN [handlers |-> handlers, uploads |-> ups]
    ELSE LET u == handlers[k]
             s == pageHandler(ups[u], u, m)
             off == isResolved(s) /\ ~isResolved(ups[u])
         IN forEachHandler(k + 1, len,
                           IF off THEN offHandler(handlers, u) ELSE handlers,
                           [ups EXCEPT ![u] = s], m)

\* uploadFileViaWebSocket: UPLOAD_INIT is sent and the four handlers are
\* registered; the server answers UPLOAD_INIT_SUCCESS with the fileId of the
\* new session and the requestId
uploadFileViaWebSocket(u) ==
  /\ pageUploads[u].state = "idle"
  /\ pageUploads' = [pageUploads EXCEPT ![u].state = "init"]
  /\ pageHandlers' = Append(pageHandlers, u)
  /\ pageInbox' = Append(pageInbox,
                         PageMsg("UPLOAD_INIT_SUCCESS", u, "none", 0, u))
  /\ UNCHANGED <<pageAccepted, wsVars, streamVars, quotaVars, planVars,
                 wholeDownload, cacheHandles>>

\* what the server sends for a chunk of upload u: UPLOAD_CHUNK_SUCCESS, with
\* UPLOAD_COMPLETE after the last piece, or ERROR through sendError
serverAnswers(u, accepted, outcome) ==
  IF outcome # "ok"
    THEN <<PageMsg("ERROR", "none", outcome, 0, u)>>
    ELSE <<PageMsg("UPLOAD_CHUNK_SUCCESS", u, "none",
                   Cardinality(accepted), u)>>
         \o (IF Cardinality(accepted) = MaxPagePieces
               THEN <<PageMsg("UPLOAD_COMPLETE", u, "none", 0, u)>>
               ELSE <<>>)

\* uploadChunks/uploadNextChunk of upload u: the next chunk is sent, and the
\* server accepts it or answers with an error; the timer chain does not
\* look at the promise of the upload
pageNextChunk(u, outcome) ==
  /\ pageUploads[u].fileId # "none"
  /\ pageUploads[u].currentChunkIndex < MaxPagePieces
  /\ LET index == pageUploads[u].currentChunkIndex
         accepted == IF outcome = "ok" THEN pageAccepted[u] \cup {index}
                     ELSE pageAccepted[u]
     IN /\ pageAccepted' = [pageAccepted EXCEPT ![u] = accepted]
        /\ pageInbox' = pageInbox \o serverAnswers(u, accepted, outcome)
  /\ pageUploads' = [pageUploads EXCEPT ![u].currentChunkIndex = @ + 1]
  /\ UNCHANGED <<pageHandlers, wsVars, streamVars, quotaVars, planVars,
                 wholeDownload, cacheHandles>>

\* ws.onmessage of the page: handleMessage dispatches the next message
handleMessage ==
  /\ pageInbox # <<>>
  /\ LET r == forEachHandler(1, Len(pageHandlers), pageHandlers, pageUploads,
                             Head(pageInbox))
     IN /\ pageUploads' = r.uploads
        /\ pageHandlers' = r.handlers
  /\ pageInbox' = Tail(pageInbox)
  /\ UNCHANGED <<pageAccepted, wsVars, streamVars, quotaVars, planVars,
                 wholeDownload, cacheHandles>>

ChunkOutcomes == {"ok", "HASH_MISMATCH", "UPLOAD_CHUNK_ERROR"}

PageInit == Init /\ build = "plain"

PageNext ==
  \/ \E u \in PageUploads : uploadFileViaWebSocket(u)
  \/ \E u \in PageUploads, outcome \in ChunkOutcomes :
       pageNextChunk(u, outcome)
  \/ handleMessage

PageSpec == PageInit /\ [][PageNext]_vars


\* the bytes upload request r has received
UploadedBy(r) == [k \in 1..streamReqs[r].uploadedBytes |-> r]

\* C31: catch-up in the live-streaming server. A download that attached to
\* an upload in progress and was ended by the end of that upload has
\* received the bytes of the upload, each once and in order
C31_CatchUpComplete ==
  \A d \in DownloadReqs :
    LET r == streamDownloads[d].session
    IN (r # NoSession /\ streamDownloads[d].state = "ended"
          /\ streamReqs[r].completed)
         => streamDownloads[d].got = UploadedBy(r)

\* C32: a download response that attached to an upload in progress, by a
\* catch-up read or directly, is eventually ended once that upload has
\* ended; one that is still catching up when the upload ends is closed
\* after its read stream has finished
C32_AttachedResponseEnds ==
  \A d \in DownloadReqs :
    (/\ streamDownloads[d].state \in {"catchup", "live"}
     /\ streamReqs[streamDownloads[d].session].completed)
      ~> (streamDownloads[d].state \notin {"catchup", "live"})

C34_FlushedOnCompletion ==
  [][(build = "batched" /\ \E m \in sent' : m.type = "UPLOAD_COMPLETE")
       => \A i \in 0..(upload'.totalPieces - 1) :
            /\ i \in DOMAIN pieces'
            /\ pieces'[i].is_complete = 1
            /\ pieces'[i].hash # EmptyHash]_vars

\* C35: a whole-file download over HTTP that started while the file was
\* incomplete writes every piece once and in ascending order, and when it
\* has ended with every piece complete its body is the bytes of the file
C35_ProgressiveDownloadInOrder ==
  wholeDownload.totalPieces > 0 =>
    /\ \A k \in 1..(Len(wholeDownload.streamed) - 1) :
         wholeDownload.streamed[k] < wholeDownload.streamed[k + 1]
    /\ (wholeDownload.state = "ended"
          /\ Cardinality(CompleteIndices) = fileRow.total_pieces)
         => wholeDownload.body = blob

\* C36: an entry of the download cache is garbage-collected. A consumer
\* asks for each index at most once, so an entry that stays is an entry that
\* is not accessed any more: every entry with an open handle is eventually
\* closed and removed from the cache
C36_IdleCacheEntryCollected ==
  downloadCache.open ~> ~downloadCache.open


\* C37: UPLOAD_COMPLETE is sent to the producer at most once for an upload
\* session, however the handlers of its chunks interleave
C37_CompleteAtMostOnce ==
  completeSent <= 1

\* C38: a chunk that arrived on a connection other than the one that opened
\* the session changes neither the file's bytes, nor the piece rows, nor the
\* session's set of uploaded chunks
C38_OnlyInitiatorWrites ==
  [][\A t \in UploadTasks :
       (t.ws # upload.ws /\ handleUploadChunk(t))
         => /\ blob' = blob
            /\ pieces' = pieces
            /\ upload'.uploadedChunks = upload.uploadedChunks]_vars

\* C39: every handle opened for the download cache is the handle of the
\* entry stored in downloadCache, or it has been closed
C39_NoHandleLeak ==
  \A h \in 1..Len(cacheHandles.fds) :
    cacheHandles.fds[h] = "open" => cacheHandles.stored = h

\* C40: an ERROR message of the server rejects only the upload whose message
\* caused it; the promise of every other upload on the connection stays as
\* it was
C40_ErrorRejectsOnlyItsUpload ==
  [][\A u \in PageUploads :
       (pageUploads'[u].state = "rejected" /\ pageUploads[u].state # "rejected")
         => /\ pageInbox # <<>>
            /\ Head(pageInbox).type = "ERROR"
            /\ Head(pageInbox).cause = u]_vars
====
